---- MODULE Spec2Model ----
(***************************************************************************)
(* Model of the market-loader candle ingestion engine: the partitioned     *)
(* candle store (SaveCandles, CreatePartition), the instrument upsert      *)
(* (SaveInstrument), the chunk loop of LoadCandleData and the instrument   *)
(* loop of the interval / CLI loaders.                                     *)
(*                                                                         *)
(* Time is an integer number of ticks (one tick = the one second that      *)
(* CreatePartition subtracts from the end of a month); a calendar month    *)
(* is MonthLen ticks long, month m covering [m*MonthLen, (m+1)*MonthLen).  *)
(***************************************************************************)
EXTENDS Integers, Sequences, FiniteSets, TLC

\* ------------------------------------------------------------------ bounds
NumFigi == 2
MonthLen == 2
MonthsPerYear == 2
MaxVal == 2
MaxBatch == 2
MaxLimit == 3
MaxCalls == 1
MaxFaults == 1
MaxUnits == 11
MaxDigit == 2
MaxText == 3
MaxFiles == 2
MaxRows == 2
MaxOffset == 1
MaxReads == 5

MaxTime == MonthLen * MonthsPerYear - 1
Times == 0..MaxTime
Figis == 1..NumFigi
Years == {0}
Vals == 1..MaxVal
NoTime == -1

\* the two resolutions candles are stored under
CandleInterval1Min == "CANDLE_INTERVAL_1_MIN"
CandleIntervalDay == "CANDLE_INTERVAL_DAY"
Intervals == {CandleInterval1Min, CandleIntervalDay}

VARIABLES
    candles,        \* rows of table candles
    partitions,     \* partitions of table candles: [name, lo, hi), hi exclusive
    instruments,    \* rows of table instruments
    pc,             \* position of the sequential worker
    caller,         \* who called SaveCandles: "archive", "pa" (processArchive) or "load"
    sc_figi, sc_interval, sc_batch, sc_i,   \* SaveCandles arguments and loop index
    sc_log,         \* statements SaveCandles executed in the current call
    sc_ret,         \* error returned by the last SaveCandles call
    si_ret,         \* error returned by the last SaveInstrument call
    calls,          \* number of SaveCandles calls issued so far
    cp_ret,         \* error returned by the last CreatePartition / CreateYearPartitions call
    locale,         \* message language of the database server
    faults,         \* number of database / API failures injected so far
    written,        \* history: latest candle acknowledged by the database, per key
    si_hist,        \* history: enabled at insert and latest record acknowledged, per figi
    loader,         \* which binary runs: "interval" or "cli"
    figiFlag,       \* --figi of the CLI loader, 0 when not given
    now,            \* time.Now() of the run
    startDate,      \* cfg.GetStartDate()
    limit,          \* cfg.GetIntervalLimit(configKey)
    queue,          \* the instruments the loader iterates over
    idx,            \* position of the instrument loop
    results,        \* what ProcessInstrument returned, per figi
    exitCode,       \* exit status of the process, -1 while it runs
    lastLoaded,     \* lastLoadedTime of ProcessInstrument
    from, to, chunkSize, currentFrom, currentTo,   \* locals of LoadCandleData
    windows,        \* history: the fetch windows LoadCandleData issued for the instrument
    loadErr,        \* what LoadCandleData returned: "none", "nil", "fetch", "save"
    spacing,        \* "called": the candle API was called and no pause taken since
    cancelled,      \* the context handed to the pipeline is cancelled
    mv_src,         \* what the price codec was given: "pair" (units, nano) or "text"
    mv_in,          \* the (units, nano) pair given to ConvertMoneyValue
    mv_text,        \* the price text: written by ConvertMoneyValue or read from a CSV row
    mv_out,         \* the Quotation parsePriceString returned
    pa_n,           \* number of files in the downloaded ZIP archive
    pa_src,         \* what the archive endpoint serves: the lines its files are made of
    pa_file,        \* the file of the archive that is open for reading
    pa_f,           \* position of processArchive in reader.File
    pa_hist,        \* history: what processArchive did with each file it reached
    pa_out,         \* the candles processArchive returns
    pa_ret,         \* error returned by processArchive
    attempt,        \* attempt counter of DownloadYearArchive
    retryDelay,     \* delay before the next attempt, in seconds
    dl_log,         \* history: outcome of every HTTP attempt
    dl_sleeps,      \* history: the delays DownloadYearArchive slept
    dl_ret,         \* error returned by DownloadYearArchive
    ck_interval,    \* intervalType given to LoadCandleData
    ck_limits,      \* cfg.Loading.Limits: row limit per resolution text
    ck_chunk,       \* chunkSize computed by LoadCandleData, in minutes
    am_year,        \* year of the year loop of the archive loader
    am_log,         \* history: what the archive loader did for each (figi, year)
    zone,           \* time.Local: its offset east of UTC, in ticks
    zn_calls,       \* history: instant and requested partition of every CreatePartition
    pi_batch,       \* the records processInstruments was given
    pi_i,           \* index of the record processInstruments is at
    pi_count,       \* count of processInstruments
    dividends,      \* table dividends
    dv_batch,       \* the dividends LoadDividends returned
    dv_i,           \* index of the dividend ProcessInstrumentDividends is at
    dv_sret,        \* error returned by the last SaveDividend
    dv_ret,         \* error returned by ProcessInstrumentDividends
    rd_rows,        \* lines of the CSV file the read loop of processArchive is given
    rd_bad,         \* 0, or 1 + the number of lines readable before the entry is corrupt
    rd_pos,         \* lines the csv.Reader has consumed
    rd_fpr,         \* FieldsPerRecord of the csv.Reader
    rd_reads,       \* history: number of csvReader.Read calls
    rd_out          \* fileCandles

scVars == <<sc_figi, sc_interval, sc_batch, sc_i, sc_log, sc_ret>>
money == <<mv_src, mv_in, mv_text, mv_out>>
arch == <<pa_n, pa_src, pa_file, pa_f, pa_hist, pa_out, pa_ret, attempt, retryDelay, dl_log, dl_sleeps,
          dl_ret>>
plan == <<ck_interval, ck_limits, ck_chunk>>
imp == <<am_year, am_log>>
zn == <<zone, zn_calls>>
sync == <<pi_batch, pi_i, pi_count, dividends, dv_batch, dv_i, dv_sret, dv_ret>>
rd == <<rd_rows, rd_bad, rd_pos, rd_fpr, rd_reads, rd_out>>
ext == <<plan, imp, zn, sync, rd>>
aux == <<money, arch, ext>>
drv == <<loader, figiFlag, now, startDate, limit, queue, idx, results, exitCode,
         lastLoaded, from, to, chunkSize, currentFrom, currentTo, windows, loadErr,
         spacing, cancelled, aux>>
vars == <<candles, partitions, instruments, pc, caller,
          sc_figi, sc_interval, sc_batch, sc_i, sc_log, sc_ret, si_ret, calls, cp_ret, locale, faults, written,
          si_hist, drv>>

\* ------------------------------------------------------------------ errors
NilErr == [kind |-> "nil", code |-> "", msg |-> ""]
\* what PostgreSQL answers when no partition holds the row (SQLSTATE 23514),
\* in an English and in a Russian server locale
NoPartitionErrEn == [kind |-> "pg", code |-> "23514", msg |-> "no partition of relation"]
NoPartitionErrRu == [kind |-> "pg", code |-> "23514", msg |-> "dlya stroki ne naydena sektsiya"]
\* a true integrity error: candles_figi_fkey violated (SQLSTATE 23503)
FkErr == [kind |-> "pg", code |-> "23503", msg |-> "violates foreign key constraint"]
\* a true data error: DECIMAL(20,9) overflow (SQLSTATE 22003)
NumericErr == [kind |-> "pg", code |-> "22003", msg |-> "numeric field overflow"]
\* not a PostgreSQL error at all (connection lost, pool closed)
ConnErr == [kind |-> "other", code |-> "", msg |-> "conn closed"]

IsNil(e) == e.kind = "nil"

\* strings.Contains(pgErr.Message, needle) over the messages above (the
\* Russian message is written transliterated)
Contains(msg, needle) ==
    CASE needle = "no partition of relation" -> msg = "no partition of relation"
      [] needle = "dlya stroki ne naydena sektsiya" -> msg = "dlya stroki ne naydena sektsiya"
      [] needle = "partition" -> msg = "no partition of relation"
      [] OTHER -> FALSE

\* ------------------------------------------------------- partitioned store
\* calendar month of a timestamp: t.Year(), t.Month() collapsed to one index
MonthOf(t) == t \div MonthLen
\* time.Date(t.Year(), t.Month(), 1, 0, 0, 0, 0, time.UTC)
MonthStart(t) == MonthOf(t) * MonthLen
NextMonthStart(t) == (MonthOf(t) + 1) * MonthLen
\* monthStart.AddDate(0, 1, 0).Add(-time.Second)
MonthEnd(t) == NextMonthStart(t) - 1

\* the clock reading t.Year(), t.Month(), ... of a time.Time that denotes the
\* instant t in a location z ticks east of UTC (0 for time.UTC)
WallClock(t, z) == t + z

\* the partition CreatePartition asks for: candles_YYYY_MM FOR VALUES FROM lo TO hi,
\* t being the clock reading of its argument
PartitionFor(t) == [name |-> MonthOf(t), lo |-> MonthStart(t), hi |-> MonthEnd(t)]

\* CREATE TABLE IF NOT EXISTS name PARTITION OF candles FOR VALUES FROM .. TO ..
ExecCreatePartition(parts, t) ==
    IF \E p \in parts : p.name = PartitionFor(t).name
    THEN parts
    ELSE parts \cup {PartitionFor(t)}

\* tuple routing of PARTITION BY RANGE ("time"): lower bound inclusive,
\* upper bound exclusive
HasPartition(parts, t) == \E p \in parts : p.lo <= t /\ t < p.hi

\* a fetched or parsed candle (pb.HistoricCandle)
Candle(t, v) == [time |-> t, open |-> v, high |-> v, low |-> v, close |-> v, volume |-> v]
CandleSet == {Candle(t, v) : t \in Times, v \in Vals}

SameKey(r, figi, t, interval) ==
    r.figi = figi /\ r.time = t /\ r.interval_type = interval

\* variant: the upsert forgets volume in its DO UPDATE SET list
UpsertCandle_KeepVolume(rows, figi, c, interval) ==
    IF \E r \in rows : SameKey(r, figi, c.time, interval)
    THEN {IF SameKey(r, figi, c.time, interval)
          THEN [r EXCEPT !.open_price = c.open, !.high_price = c.high,
                         !.low_price = c.low, !.close_price = c.close]
          ELSE r : r \in rows}
    ELSE rows \cup {[figi |-> figi, time |-> c.time, interval_type |-> interval,
                     open_price |-> c.open, high_price |-> c.high,
                     low_price |-> c.low, close_price |-> c.close,
                     volume |-> c.volume]}

\* INSERT INTO candles ... ON CONFLICT (figi, time, interval_type) DO UPDATE SET
\* open_price, high_price, low_price, close_price, volume = EXCLUDED.*
UpsertCandle(rows, figi, c, interval) ==
    IF \E r \in rows : SameKey(r, figi, c.time, interval)
    THEN {IF SameKey(r, figi, c.time, interval)
          THEN [r EXCEPT !.open_price = c.open, !.high_price = c.high,
                         !.low_price = c.low, !.close_price = c.close,
                         !.volume = c.volume]
          ELSE r : r \in rows}
    ELSE rows \cup {[figi |-> figi, time |-> c.time, interval_type |-> interval,
                     open_price |-> c.open, high_price |-> c.high,
                     low_price |-> c.low, close_price |-> c.close,
                     volume |-> c.volume]}

\* what the database answers to the INSERT of candle c: fault is what goes
\* wrong outside the statement itself, locale the server's message language
InsertFaults == {"none", "fk", "numeric", "conn"}
\* the failures the environment may still inject
FaultChoices == IF faults < MaxFaults THEN InsertFaults ELSE {"none"}
OkChoices == IF faults < MaxFaults THEN BOOLEAN ELSE {TRUE}
Spend(failed) == faults' = IF failed THEN faults + 1 ELSE faults
Locales == {"en", "ru"}
ExecInsertResult(parts, c, fault, loc) ==
    IF fault = "conn" THEN ConnErr
    ELSE IF fault = "numeric" THEN NumericErr
    ELSE IF ~HasPartition(parts, c.time)
         THEN (IF loc = "en" THEN NoPartitionErrEn ELSE NoPartitionErrRu)
    ELSE IF fault = "fk" THEN FkErr
    ELSE NilErr

\* variant: the switch has no default branch, every PostgreSQL error heals
IsPartitionError_NoDefault(e) == TRUE

\* the switch of SaveCandles on pgErr.Code and pgErr.Message
IsPartitionError(e) ==
    \/ e.code = "23514"
    \/ Contains(e.msg, "no partition of relation")
    \/ Contains(e.msg, "dlya stroki ne naydena sektsiya")
    \/ Contains(e.msg, "partition")

\* errors.As(err, &pgErr)
IsPgError(e) == e.kind = "pg"

\* history of acknowledged writes: key <<figi, time, interval_type>> -> candle
Acknowledge(w, figi, c, interval) ==
    [k \in DOMAIN w \cup {<<figi, c.time, interval>>} |->
        IF k = <<figi, c.time, interval>> THEN c ELSE w[k]]

\* ------------------------------------------------------------- SaveCandles
\* where SaveCandles returns to
ReturnPc ==
    IF caller = "archive" THEN "idle"
    ELSE IF caller = "pa" THEN "pa_saved" ELSE "lcd_saved"

SCReturn(r) ==
    /\ sc_ret' = r
    /\ pc' = ReturnPc
    /\ sc_i' = sc_i

\* next iteration of "for _, candle := range candles", or "return nil"
SCContinue ==
    IF sc_i = Len(sc_batch)
    THEN SCReturn("nil")
    ELSE /\ sc_i' = sc_i + 1
         /\ pc' = "sc_insert"
         /\ sc_ret' = sc_ret

\* variant: a fatal insert error is logged and the loop goes on
SC_Insert_SkipFatal ==
    /\ pc = "sc_insert"
    /\ \E fault \in FaultChoices :
         LET c == sc_batch[sc_i]
             e == ExecInsertResult(partitions, c, fault, locale)
         IN  /\ Spend(fault # "none")
             /\ sc_log' = Append(sc_log, [i |-> sc_i, op |-> "insert", err |-> e])
             /\ IF IsNil(e)
                THEN /\ candles' = UpsertCandle(candles, sc_figi, c, sc_interval)
                     /\ written' = Acknowledge(written, sc_figi, c, sc_interval)
                     /\ SCContinue
                ELSE /\ UNCHANGED <<candles, written>>
                     /\ IF IsPgError(e) /\ IsPartitionError(e)
                        THEN /\ pc' = "sc_create"
                             /\ UNCHANGED <<sc_i, sc_ret>>
                        ELSE SCContinue
    /\ UNCHANGED <<partitions, instruments, caller, sc_figi, sc_interval,
                   sc_batch, si_ret, calls, cp_ret, locale, si_hist, drv>>

\* first dbpool.Exec of the loop body and the classification of its error
SC_Insert ==
    /\ pc = "sc_insert"
    /\ \E fault \in FaultChoices :
         LET c == sc_batch[sc_i]
             e == ExecInsertResult(partitions, c, fault, locale)
         IN  /\ Spend(fault # "none")
             /\ sc_log' = Append(sc_log, [i |-> sc_i, op |-> "insert", err |-> e])
             /\ IF IsNil(e)
                THEN /\ candles' = UpsertCandle(candles, sc_figi, c, sc_interval)
                     /\ written' = Acknowledge(written, sc_figi, c, sc_interval)
                     /\ SCContinue
                ELSE /\ UNCHANGED <<candles, written>>
                     /\ IF IsPgError(e)
                        THEN IF IsPartitionError(e)
                             THEN /\ pc' = "sc_create"
                                  /\ UNCHANGED <<sc_i, sc_ret>>
                             ELSE SCReturn("err_insert")
                        ELSE SCReturn("err_insert")
    /\ UNCHANGED <<partitions, instruments, caller, sc_figi, sc_interval,
                   sc_batch, si_ret, calls, cp_ret, locale, si_hist, drv>>

\* CreatePartition(dbpool, candle.GetTime().AsTime()) inside SaveCandles
SC_CreatePartition ==
    /\ pc = "sc_create"
    /\ \E ok \in OkChoices :
         LET c == sc_batch[sc_i]
         IN  /\ Spend(~ok)
             /\ sc_log' = Append(sc_log, [i |-> sc_i, op |-> "create",
                                          err |-> IF ok THEN NilErr ELSE ConnErr])
             /\ IF ok
                THEN /\ partitions' = ExecCreatePartition(partitions, c.time)
                     /\ pc' = "sc_retry"
                     /\ UNCHANGED <<sc_i, sc_ret>>
                ELSE /\ partitions' = partitions
                     /\ SCReturn("err_create")
    /\ UNCHANGED <<candles, instruments, caller, sc_figi, sc_interval,
                   sc_batch, si_ret, calls, cp_ret, locale, written, si_hist, drv>>

\* variant: the error of the second Exec is dropped
SC_Retry_Swallow ==
    /\ pc = "sc_retry"
    /\ \E fault \in FaultChoices :
         LET c == sc_batch[sc_i]
             e == ExecInsertResult(partitions, c, fault, locale)
         IN  /\ Spend(fault # "none")
             /\ sc_log' = Append(sc_log, [i |-> sc_i, op |-> "retry", err |-> e])
             /\ IF IsNil(e)
                THEN /\ candles' = UpsertCandle(candles, sc_figi, c, sc_interval)
                     /\ written' = Acknowledge(written, sc_figi, c, sc_interval)
                ELSE UNCHANGED <<candles, written>>
             /\ SCContinue
    /\ UNCHANGED <<partitions, instruments, caller, sc_figi, sc_interval,
                   sc_batch, si_ret, calls, cp_ret, locale, si_hist, drv>>

\* the second dbpool.Exec, after the partition was created
SC_Retry ==
    /\ pc = "sc_retry"
    /\ \E fault \in FaultChoices :
         LET c == sc_batch[sc_i]
             e == ExecInsertResult(partitions, c, fault, locale)
         IN  /\ Spend(fault # "none")
             /\ sc_log' = Append(sc_log, [i |-> sc_i, op |-> "retry", err |-> e])
             /\ IF IsNil(e)
                THEN /\ candles' = UpsertCandle(candles, sc_figi, c, sc_interval)
                     /\ written' = Acknowledge(written, sc_figi, c, sc_interval)
                     /\ SCContinue
                ELSE /\ UNCHANGED <<candles, written>>
                     /\ SCReturn("err_retry")
    /\ UNCHANGED <<partitions, instruments, caller, sc_figi, sc_interval,
                   sc_batch, si_ret, calls, cp_ret, locale, si_hist, drv>>

\* ------------------------------------------------ callers of the store API
RECURSIVE SeqsUpTo(_, _)
SeqsUpTo(S, n) ==
    IF n = 0 THEN {<<>>}
    ELSE LET shorter == SeqsUpTo(S, n - 1)
         IN  shorter \cup {Append(q, x) : q \in {r \in shorter : Len(r) = n - 1}, x \in S}

Batches == SeqsUpTo(CandleSet, MaxBatch)

\* storage.SaveCandles(dbpool, figi, candles, intervalType, logger) as the
\* archive importer and the chunk loop call it
CallSaveCandles ==
    /\ pc = "idle"
    /\ calls < MaxCalls
    /\ \E figi \in Figis, interval \in Intervals, batch \in Batches :
         /\ sc_figi' = figi
         /\ sc_interval' = interval
         /\ sc_batch' = batch
         /\ sc_log' = <<>>
         /\ IF Len(batch) = 0
            THEN /\ sc_ret' = "nil"
                 /\ sc_i' = 0
                 /\ pc' = "idle"
            ELSE /\ sc_ret' = "none"
                 /\ sc_i' = 1
                 /\ pc' = "sc_insert"
    /\ caller' = "archive"
    /\ calls' = calls + 1
    /\ UNCHANGED <<candles, partitions, instruments, si_ret, cp_ret, locale, faults, written, si_hist, drv>>

\* CreateInitialPartition: CreatePartition(dbpool, time.Now())
CreateInitialPartition ==
    /\ pc = "idle"
    /\ \E t \in Times, ok \in OkChoices :
         /\ Spend(~ok)
         /\ IF ok
            THEN /\ partitions' = ExecCreatePartition(partitions, t)
                 /\ cp_ret' = "nil"
            ELSE /\ partitions' = partitions
                 /\ cp_ret' = "err"
    /\ UNCHANGED <<candles, instruments, pc, caller, sc_figi, sc_interval,
                   sc_batch, sc_i, sc_log, sc_ret, si_ret, locale, calls, written,
                   si_hist, drv>>

\* months 1..12 of a year, as first-of-month timestamps
YearMonthStart(year, month) == (year * MonthsPerYear + (month - 1)) * MonthLen

RECURSIVE CreateMonths(_, _, _)
\* partitions after CreatePartition succeeded for months 1..n of year
CreateMonths(parts, year, n) ==
    IF n = 0 THEN parts
    ELSE ExecCreatePartition(CreateMonths(parts, year, n - 1), YearMonthStart(year, n))

\* CreateYearPartitions: stops at the first month whose CreatePartition fails
CreateYearPartitions ==
    /\ pc = "idle"
    /\ \E year \in Years,
          done \in IF faults < MaxFaults THEN 0..MonthsPerYear ELSE {MonthsPerYear} :
         /\ Spend(done < MonthsPerYear)
         /\ partitions' = CreateMonths(partitions, year, done)
         /\ cp_ret' = IF done = MonthsPerYear THEN "nil" ELSE "err"
    /\ UNCHANGED <<candles, instruments, pc, caller, sc_figi, sc_interval,
                   sc_batch, sc_i, sc_log, sc_ret, si_ret, locale, calls, written,
                   si_hist, drv>>

\* &pb.Quotation{Units: u, Nano: n}
Quotation(u, n) == [Units |-> u, Nano |-> n]

\* config.DefaultRetryDelay, in seconds
DefaultRetryDelay == 5

\* the price codec is not in use
IdleMoney ==
    /\ mv_src = "none"
    /\ mv_in = Quotation(0, 0)
    /\ mv_text = <<>>
    /\ mv_out = Quotation(0, 0)

\* no archive is being downloaded
IdleArchive ==
    /\ pa_n = 0
    /\ pa_src = [rows |-> {}, max |-> 0]
    /\ pa_file = [csv |-> FALSE, openOk |-> TRUE, rows |-> <<>>]  \* no file is open
    /\ pa_f = 0
    /\ pa_hist = <<>>
    /\ pa_out = <<>>
    /\ pa_ret = "none"
    /\ attempt = 1
    /\ retryDelay = DefaultRetryDelay
    /\ dl_log = <<>>
    /\ dl_sleeps = <<>>
    /\ dl_ret = "none"

\* no chunk size is being computed
IdlePlan ==
    /\ ck_interval = CandleInterval1Min
    /\ ck_limits = <<>>
    /\ ck_chunk = 0

\* the archive loader is not running
IdleImport ==
    /\ am_year = 0
    /\ am_log = <<>>

\* the host runs in UTC and no CreatePartition is on record
IdleZone ==
    /\ zone = 0
    /\ zn_calls = {}

\* no reference-data or dividend sync is running
IdleSync ==
    /\ pi_batch = <<>>
    /\ pi_i = 0
    /\ pi_count = 0
    /\ dividends = {}
    /\ dv_batch = <<>>
    /\ dv_i = 0
    /\ dv_sret = "none"
    /\ dv_ret = "none"

\* no CSV file is being read
IdleRead ==
    /\ rd_rows = <<>>
    /\ rd_bad = 0
    /\ rd_pos = 0
    /\ rd_fpr = 0
    /\ rd_reads = 0
    /\ rd_out = <<>>

IdleExt == IdlePlan /\ IdleImport /\ IdleZone /\ IdleSync /\ IdleRead

IdleAux == IdleMoney /\ IdleArchive /\ IdleExt

\* the loader process is not running: only the store API is exercised
IdleDriver ==
    /\ IdleAux
    /\ loader = "interval"
    /\ figiFlag = 0
    /\ now = MaxTime + 1
    /\ startDate = 0
    /\ limit = 1
    /\ queue = <<>>
    /\ idx = 0
    /\ results = [f \in Figis |-> "none"]
    /\ exitCode = -1
    /\ lastLoaded = NoTime
    /\ from = NoTime
    /\ to = NoTime
    /\ chunkSize = 0
    /\ currentFrom = NoTime
    /\ currentTo = NoTime
    /\ windows = <<>>
    /\ loadErr = "none"
    /\ spacing = "clear"
    /\ cancelled = FALSE

\* --------------------------------------------- specification of the store
InitStore ==
    /\ candles = {}
    /\ partitions = {}
    /\ instruments = {}
    /\ pc = "idle"
    /\ caller = "archive"
    /\ sc_figi = 1
    /\ sc_interval = CandleInterval1Min
    /\ sc_batch = <<>>
    /\ sc_i = 0
    /\ sc_log = <<>>
    /\ sc_ret = "none"
    /\ si_ret = "none"
    /\ cp_ret = "none"
    /\ calls = 0
    /\ locale \in Locales
    /\ faults = 0
    /\ written = <<>>
    /\ si_hist = <<>>
    /\ IdleDriver

NextStore ==
    \/ CallSaveCandles
    \/ SC_Insert
    \/ SC_CreatePartition
    \/ SC_Retry
    \/ CreateInitialPartition
    \/ CreateYearPartitions

SpecStore == InitStore /\ [][NextStore]_vars

\* ---------------------------------------------------------- SaveInstrument
TradingStatuses == {"SECURITY_TRADING_STATUS_NORMAL_TRADING",
                    "SECURITY_TRADING_STATUS_NOT_AVAILABLE_FOR_TRADING"}
Tickers == {"TKA", "TKB"}

\* the share, bond and etf records of the instruments API
ProtoInstruments ==
    [Figi : Figis, Ticker : Tickers, TradingStatus : TradingStatuses,
     ApiTradeAvailableFlag : BOOLEAN]

\* config.IsNormalTrading
IsNormalTrading(status) == status = "SECURITY_TRADING_STATUS_NORMAL_TRADING"

\* CreateInstrumentFromProto of internal/data/instruments.go: Enabled: false
CreateInstrumentFromProto(v) ==
    [Figi |-> v.Figi, Ticker |-> v.Ticker, TradingStatus |-> v.TradingStatus,
     Enabled |-> FALSE]

\* CreateInstrumentFromProto of the extended data package:
\* inst.Enabled = v.ApiTradeAvailableFlag, for shares, bonds and etfs alike
CreateInstrumentFromProtoExt(v) ==
    [Figi |-> v.Figi, Ticker |-> v.Ticker, TradingStatus |-> v.TradingStatus,
     Enabled |-> v.ApiTradeAvailableFlag]

\* variant: the DO UPDATE SET list also assigns enabled = EXCLUDED.enabled
UpsertInstrument_OverwriteEnabled(rows, inst) ==
    IF \E r \in rows : r.figi = inst.Figi
    THEN {IF r.figi = inst.Figi
          THEN [r EXCEPT !.ticker = inst.Ticker, !.trading_status = inst.TradingStatus,
                         !.enabled = inst.Enabled]
          ELSE r : r \in rows}
    ELSE rows \cup {[figi |-> inst.Figi, ticker |-> inst.Ticker,
                     trading_status |-> inst.TradingStatus, enabled |-> inst.Enabled,
                     last_loaded_time |-> NoTime]}

\* INSERT INTO instruments (...) VALUES (...) ON CONFLICT (figi) DO UPDATE SET
\* ticker, ..., trading_status = EXCLUDED.*, updated_at = NOW()  -- not enabled
UpsertInstrument(rows, inst) ==
    IF \E r \in rows : r.figi = inst.Figi
    THEN {IF r.figi = inst.Figi
          THEN [r EXCEPT !.ticker = inst.Ticker, !.trading_status = inst.TradingStatus]
          ELSE r : r \in rows}
    ELSE rows \cup {[figi |-> inst.Figi, ticker |-> inst.Ticker,
                     trading_status |-> inst.TradingStatus, enabled |-> inst.Enabled,
                     last_loaded_time |-> NoTime]}

\* history of acknowledged instrument statements
Remember(h, inst) ==
    [f \in DOMAIN h \cup {inst.Figi} |->
        IF f = inst.Figi
        THEN [firstEnabled |-> IF f \in DOMAIN h THEN h[f].firstEnabled ELSE inst.Enabled,
              last |-> inst,
              count |-> IF f \in DOMAIN h THEN 2 ELSE 1]
        ELSE h[f]]

\* one iteration of processInstruments of internal/data on a record of normal
\* trading status (others are skipped): CreateInstrumentFromProto, then
\* SaveInstrument of internal/storage/instruments.go, the statement and
\* "return fmt.Errorf(... %w, err)", which is non-nil whatever err is
SaveInstrument ==
    /\ pc = "idle"
    /\ \E v \in ProtoInstruments, ok \in BOOLEAN :
         /\ IsNormalTrading(v.TradingStatus)
         /\ LET inst == CreateInstrumentFromProto(v) IN
            IF ok
            THEN /\ instruments' = UpsertInstrument(instruments, inst)
                 /\ si_hist' = Remember(si_hist, inst)
            ELSE UNCHANGED <<instruments, si_hist>>
         /\ si_ret' = IF ok THEN "wrapped_nil" ELSE "err"
    /\ UNCHANGED <<candles, partitions, pc, caller, sc_figi, sc_interval, sc_batch,
                   sc_i, sc_log, sc_ret, calls, cp_ret, locale, faults, written, drv>>

\* one iteration of processInstruments of the extended data package: its
\* CreateInstrumentFromProto, then SaveInstrument of the extended storage
\* package: same conflict clause, "if err != nil { return fmt.Errorf(...) };
\* return nil"
SaveInstrumentExt ==
    /\ pc = "idle"
    /\ \E v \in ProtoInstruments, ok \in BOOLEAN :
         /\ IsNormalTrading(v.TradingStatus)
         /\ LET inst == CreateInstrumentFromProtoExt(v) IN
            IF ok
            THEN /\ instruments' = UpsertInstrument(instruments, inst)
                 /\ si_hist' = Remember(si_hist, inst)
            ELSE UNCHANGED <<instruments, si_hist>>
         /\ si_ret' = IF ok THEN "nil" ELSE "err"
    /\ UNCHANGED <<candles, partitions, pc, caller, sc_figi, sc_interval, sc_batch,
                   sc_i, sc_log, sc_ret, calls, cp_ret, locale, faults, written, drv>>

NextInstr == SaveInstrument \/ SaveInstrumentExt

\* reference-data sync against an initially empty instruments table
SpecInstr == InitStore /\ [][NextInstr]_vars

\* ------------------------------------------------------------ the loaders
\* MAININTERVAL when the build does not set it
MainInterval == CandleInterval1Min
\* GetTimeUnitAndConfigKey(CANDLE_INTERVAL_1_MIN): the atomic unit, in ticks
TimeUnit == 1
\* GetThreshold(intervalType)
GetThreshold == TimeUnit
\* ShouldUpdateData: time.Since(lastLoadedTime) > GetThreshold(intervalType)
ShouldUpdateData(last) == now - last > GetThreshold

Max(S) == CHOOSE x \in S : \A y \in S : y <= x
Min(S) == CHOOSE x \in S : \A y \in S : x <= y

\* SELECT MAX(time) FROM candles WHERE figi = $1 AND interval_type = $2
MaxStoredTime(rows, figi, interval) ==
    LET ts == {r.time : r \in {q \in rows : q.figi = figi /\ q.interval_type = interval}}
    IN  IF ts = {} THEN NoTime ELSE Max(ts)

\* SELECT ... FROM instruments WHERE trading_status = normal AND enabled = true
EnabledFigis(rows) ==
    {r.figi : r \in {q \in rows :
        q.enabled /\ q.trading_status = "SECURITY_TRADING_STATUS_NORMAL_TRADING"}}
\* GetInstruments: the same query without the enabled filter
NormalFigis(rows) ==
    {r.figi : r \in {q \in rows :
        q.trading_status = "SECURITY_TRADING_STATUS_NORMAL_TRADING"}}

RECURSIVE SortedSeq(_)
\* ORDER BY of the instrument query / time order of the API answer
SortedSeq(S) ==
    IF S = {} THEN <<>> ELSE <<Min(S)>> \o SortedSeq(S \ {Min(S)})

\* the instrument ProcessInstrument works on
Cur == queue[idx]

\* outcome of a database call that is given ctx: it fails once ctx is cancelled
CtxOkChoices == IF cancelled THEN {FALSE} ELSE OkChoices
\* outcome of the two database calls of ProcessLoadResult, both given ctx
CtxFailChoices ==
    IF cancelled THEN {"read"}
    ELSE IF faults < MaxFaults THEN {"none", "read", "update"} ELSE {"none"}

ResetLocals ==
    /\ lastLoaded' = NoTime
    /\ from' = NoTime
    /\ to' = NoTime
    /\ chunkSize' = 0
    /\ currentFrom' = NoTime
    /\ currentTo' = NoTime
    /\ windows' = <<>>
    /\ loadErr' = "none"

locals == <<lastLoaded, from, to, chunkSize, currentFrom, currentTo, windows, loadErr>>
config == <<loader, figiFlag, now, startDate, limit, cancelled>>
scFrame == <<caller, sc_figi, sc_interval, sc_batch, sc_i, sc_log, sc_ret>>
ghosts == <<si_ret, calls, cp_ret, locale, written, si_hist, aux>>

\* a record of normal trading status in the answer of the instruments API, as
\* processInstruments hands it to SaveInstrument (records of another status are
\* skipped there)
UpstreamRecord(f) ==
    CreateInstrumentFromProto(
        [Figi |-> f, Ticker |-> "TKA",
         TradingStatus |-> "SECURITY_TRADING_STATUS_NORMAL_TRADING",
         ApiTradeAvailableFlag |-> TRUE])

RECURSIVE LoadAllInstruments(_, _)
\* app.LoadAllInstruments: SaveInstrument for every record of the API answer
LoadAllInstruments(rows, up) ==
    IF up = {} THEN rows
    ELSE LoadAllInstruments(UpsertInstrument(rows, UpstreamRecord(Min(up))), up \ {Min(up)})

RECURSIVE RememberAll(_, _)
RememberAll(h, up) ==
    IF up = {} THEN h
    ELSE RememberAll(Remember(h, UpstreamRecord(Min(up))), up \ {Min(up)})

\* app.Initialize (ConnectToDatabase with its initial partition, API client,
\* LoadInstruments) and, in the CLI loader, getInstrument: the instrument is
\* looked up in the enabled instruments and, when absent there, the
\* instruments are loaded from the API and it is looked up in GetInstruments;
\* a failure is logger.Fatalf, which exits with status 1
Initialize ==
    /\ pc = "boot"
    /\ \E ok \in CtxOkChoices :
         /\ Spend(~ok /\ ~cancelled)
         /\ IF ~ok
            THEN /\ pc' = "fatal"
                 /\ exitCode' = 1
                 /\ UNCHANGED <<partitions, queue, idx, instruments, si_hist>>
            ELSE /\ partitions' = ExecCreatePartition(partitions, WallClock(now, zone))
                 /\ IF figiFlag = 0
                    THEN /\ queue' = SortedSeq(EnabledFigis(instruments))
                         /\ idx' = 1
                         /\ pc' = "main_loop"
                         /\ exitCode' = exitCode
                         /\ UNCHANGED <<instruments, si_hist>>
                    ELSE IF figiFlag \in EnabledFigis(instruments)
                         THEN /\ queue' = <<figiFlag>>
                              /\ idx' = 1
                              /\ pc' = "main_loop"
                              /\ exitCode' = exitCode
                              /\ UNCHANGED <<instruments, si_hist>>
                         ELSE \E up \in SUBSET Figis :
                              /\ instruments' = LoadAllInstruments(instruments, up)
                              /\ si_hist' = RememberAll(si_hist, up)
                              /\ IF figiFlag \in NormalFigis(instruments')
                                 THEN /\ queue' = <<figiFlag>>
                                      /\ idx' = 1
                                      /\ pc' = "main_loop"
                                      /\ exitCode' = exitCode
                                 ELSE /\ pc' = "fatal"
                                      /\ exitCode' = 1
                                      /\ UNCHANGED <<queue, idx>>
    /\ UNCHANGED <<candles, scFrame, si_ret, calls, cp_ret, locale, written, aux, config,
                   results, locals>>
    /\ UNCHANGED spacing

\* "for _, instrument := range instruments" and the end of main / runLoader
Main_Loop ==
    /\ pc = "main_loop"
    /\ IF idx <= Len(queue)
       THEN /\ pc' = "pi_start"
            /\ exitCode' = exitCode
       ELSE /\ pc' = "done"
            /\ exitCode' = 0
    /\ ResetLocals
    /\ UNCHANGED <<candles, partitions, instruments, scFrame, ghosts, faults, config,
                   queue, idx, results>>
    /\ UNCHANGED spacing

\* variant: an instrument error ends the run like an initialization error
Main_After_Fatal ==
    /\ pc = "main_after"
    /\ IF results[Cur] = "err"
       THEN /\ pc' = "fatal"
            /\ exitCode' = 1
            /\ idx' = idx
       ELSE /\ pc' = "main_loop"
            /\ exitCode' = exitCode
            /\ idx' = idx + 1
    /\ UNCHANGED <<candles, partitions, instruments, scFrame, ghosts, faults, config,
                   queue, results, locals>>
    /\ UNCHANGED spacing

\* after ProcessInstrument: log the error and continue, or pause; next one
Main_After ==
    /\ pc = "main_after"
    /\ idx' = idx + 1
    /\ pc' = "main_loop"
    /\ UNCHANGED <<candles, partitions, instruments, scFrame, ghosts, faults, config,
                   queue, results, exitCode, locals>>
    /\ spacing' = IF results[Cur] = "ok" THEN "clear" ELSE spacing

\* ProcessInstrument: storage.GetLastLoadedTime
PI_GetLastLoadedTime ==
    /\ pc = "pi_start"
    /\ \E ok \in CtxOkChoices :
         /\ Spend(~ok /\ ~cancelled)
         /\ IF ok
            THEN /\ lastLoaded' = MaxStoredTime(candles, Cur, MainInterval)
                 /\ pc' = "lcd_start"
                 /\ results' = results
            ELSE /\ lastLoaded' = lastLoaded
                 /\ pc' = "main_after"
                 /\ results' = [results EXCEPT ![Cur] = "err"]
    /\ UNCHANGED <<candles, partitions, instruments, scFrame, ghosts, config, queue, idx,
                   exitCode, from, to, chunkSize, currentFrom, currentTo, windows, loadErr>>
    /\ UNCHANGED spacing

\* variant: an existing instrument is continued one unit after its last candle
PeriodStart_AfterLast(last, start) == IF last = NoTime THEN start ELSE last + TimeUnit

\* "from": cfg.GetStartDate() for a new instrument, else lastLoadedTime
PeriodStart(last, start) == IF last = NoTime THEN start ELSE last

\* LoadCandleData up to the chunk loop: freshness check, chunk size, period
LCD_Start ==
    /\ pc = "lcd_start"
    /\ IF lastLoaded # NoTime /\ ~ShouldUpdateData(lastLoaded)
       THEN /\ loadErr' = "nil"
            /\ pc' = "plr"
            /\ UNCHANGED <<from, to, chunkSize, currentFrom>>
       ELSE /\ chunkSize' = limit * TimeUnit
            /\ from' = PeriodStart(lastLoaded, startDate)
            /\ to' = now
            /\ currentFrom' = PeriodStart(lastLoaded, startDate)
            /\ pc' = "lcd_loop"
            /\ loadErr' = loadErr
    /\ UNCHANGED <<candles, partitions, instruments, scFrame, ghosts, faults, config,
                   queue, idx, results, exitCode, lastLoaded, currentTo, windows>>
    /\ UNCHANGED spacing

Window(f, t, ts, st) == [from |-> f, to |-> t, times |-> ts, status |-> st]

\* variant: the chunk end is not clamped to "to"
ChunkEnd_NoClamp(cf, size, end) == cf + size

\* currentTo := currentFrom.Add(chunkSize), clamped to "to"
ChunkEnd(cf, size, end) == IF cf + size > end THEN end ELSE cf + size

\* the number of passes of the chunk loop that are followed; a loop that
\* advances by at least one unit per pass never gets this far
MaxWindows == MaxTime + 4

\* one pass of the chunk loop up to the call of SaveCandles: LoadCandleChunk,
\* and for an empty answer the advance of the cursor and the pause
LCD_Fetch ==
    /\ pc = "lcd_loop"
    /\ currentFrom < to
    /\ Len(windows) < MaxWindows
    /\ currentTo' = ChunkEnd(currentFrom, chunkSize, to)
    /\ \E ok \in OkChoices :
         /\ Spend(~ok)
         /\ IF ~ok
            THEN /\ windows' = Append(windows, Window(currentFrom, currentTo', {}, "fetch_err"))
                 /\ loadErr' = "fetch"
                 /\ pc' = "plr"
                 /\ UNCHANGED <<currentFrom, scFrame>>
            ELSE \E S \in SUBSET {t \in Times : currentFrom <= t /\ t < currentTo'},
                    v \in Vals :
                   /\ loadErr' = loadErr
                   /\ IF S = {}
                      THEN /\ windows' = Append(windows,
                                            Window(currentFrom, currentTo', S, "empty"))
                           /\ currentFrom' = currentTo'
                           /\ pc' = "lcd_loop"
                           /\ UNCHANGED scFrame
                      ELSE /\ windows' = Append(windows,
                                            Window(currentFrom, currentTo', S, "saving"))
                           /\ currentFrom' = currentFrom
                           /\ caller' = "load"
                           /\ sc_figi' = Cur
                           /\ sc_interval' = MainInterval
                           /\ sc_batch' = [k \in 1..Cardinality(S) |->
                                              Candle(SortedSeq(S)[k], v)]
                           /\ sc_i' = 1
                           /\ sc_log' = <<>>
                           /\ sc_ret' = "none"
                           /\ pc' = "sc_insert"
    /\ UNCHANGED <<candles, partitions, instruments, ghosts, config, queue, idx, results,
                   exitCode, lastLoaded, from, to, chunkSize>>
    /\ spacing' = IF pc' = "lcd_loop" THEN "clear" ELSE "called"

\* the loop condition currentFrom.Before(to) fails: LoadCandleData returns nil
LCD_Done ==
    /\ pc = "lcd_loop"
    /\ ~(currentFrom < to)
    /\ loadErr' = "nil"
    /\ pc' = "plr"
    /\ UNCHANGED <<candles, partitions, instruments, scFrame, ghosts, faults, config,
                   queue, idx, results, exitCode, lastLoaded, from, to, chunkSize,
                   currentFrom, currentTo, windows>>
    /\ UNCHANGED spacing

SetStatus(ws, st) == [ws EXCEPT ![Len(ws)].status = st]

\* variant: a failed SaveCandles is logged and the loop moves to the next chunk
LCD_Saved_IgnoreError ==
    /\ pc = "lcd_saved"
    /\ windows' = SetStatus(windows, IF sc_ret = "nil" THEN "saved" ELSE "save_err")
    /\ currentFrom' = currentTo
    /\ pc' = "lcd_loop"
    /\ loadErr' = loadErr
    /\ UNCHANGED <<candles, partitions, instruments, scFrame, ghosts, faults, config,
                   queue, idx, results, exitCode, lastLoaded, from, to, chunkSize,
                   currentTo>>
    /\ spacing' = "clear"

\* the rest of the pass, after SaveCandles returned: return its error, or
\* advance the cursor and pause
LCD_Saved ==
    /\ pc = "lcd_saved"
    /\ IF sc_ret = "nil"
       THEN /\ windows' = SetStatus(windows, "saved")
            /\ currentFrom' = currentTo
            /\ pc' = "lcd_loop"
            /\ loadErr' = loadErr
       ELSE /\ windows' = SetStatus(windows, "save_err")
            /\ currentFrom' = currentFrom
            /\ pc' = "plr"
            /\ loadErr' = "save"
    /\ UNCHANGED <<candles, partitions, instruments, scFrame, ghosts, faults, config,
                   queue, idx, results, exitCode, lastLoaded, from, to, chunkSize,
                   currentTo>>
    /\ spacing' = IF sc_ret = "nil" THEN "clear" ELSE spacing

\* UPDATE instruments SET last_loaded_time = $1 WHERE figi = $2
UpdateLastLoadedTime(rows, figi, t) ==
    {IF r.figi = figi THEN [r EXCEPT !.last_loaded_time = t] ELSE r : r \in rows}

\* variant: progress is taken from the chunk cursor of the loop
GetLastCandleTime_Cursor(rows, figi, interval) == currentFrom

\* SELECT MAX("time") FROM candles WHERE figi = $1 AND interval_type = $2
GetLastCandleTime(rows, figi, interval) == MaxStoredTime(rows, figi, interval)

\* ProcessLoadResult: read MAX(time) back, record it, return the load error
ProcessLoadResult ==
    /\ pc = "plr"
    /\ \E fail \in CtxFailChoices :
         LET last == GetLastCandleTime(candles, Cur, MainInterval)
         IN  /\ Spend(fail # "none" /\ ~cancelled)
             /\ instruments' = IF fail = "none" /\ last # NoTime
                               THEN UpdateLastLoadedTime(instruments, Cur, last)
                               ELSE instruments
    /\ results' = [results EXCEPT ![Cur] = IF loadErr = "nil" THEN "ok" ELSE "err"]
    /\ pc' = "main_after"
    /\ UNCHANGED <<candles, partitions, scFrame, ghosts, config, queue, idx, exitCode,
                   locals>>
    /\ UNCHANGED spacing

NextDriver ==
    \/ Initialize
    \/ Main_Loop
    \/ PI_GetLastLoadedTime
    \/ LCD_Start
    \/ LCD_Fetch
    \/ SC_Insert
    \/ SC_CreatePartition
    \/ SC_Retry
    \/ LCD_Saved
    \/ LCD_Done
    \/ ProcessLoadResult
    \/ Main_After

\* the caller of the pipeline cancels the context it handed in
Cancel ==
    /\ ~cancelled
    /\ pc \notin {"idle", "done", "fatal"}
    /\ cancelled' = TRUE
    /\ UNCHANGED <<candles, partitions, instruments, pc, scFrame, ghosts, faults,
                   loader, figiFlag, now, startDate, limit, queue, idx, results,
                   exitCode, locals, spacing>>

NextCancel == NextDriver \/ Cancel

\* a database with all instruments known, before the loader starts
InitDriverCommon ==
    /\ IdleAux
    /\ partitions = {}
    /\ pc = "boot"
    /\ caller = "load"
    /\ sc_figi = 1
    /\ sc_interval = MainInterval
    /\ sc_batch = <<>>
    /\ sc_i = 0
    /\ sc_log = <<>>
    /\ sc_ret = "none"
    /\ si_ret = "none"
    /\ cp_ret = "none"
    /\ calls = 0
    /\ locale = "en"
    /\ faults = 0
    /\ si_hist = <<>>
    /\ queue = <<>>
    /\ idx = 0
    /\ results = [f \in Figis |-> "none"]
    /\ exitCode = -1
    /\ lastLoaded = NoTime
    /\ from = NoTime
    /\ to = NoTime
    /\ chunkSize = 0
    /\ currentFrom = NoTime
    /\ currentTo = NoTime
    /\ windows = <<>>
    /\ loadErr = "none"
    /\ spacing = "clear"
    /\ cancelled = FALSE

InstrumentRow(f, en) ==
    [figi |-> f, ticker |-> "TKA",
     trading_status |-> "SECURITY_TRADING_STATUS_NORMAL_TRADING",
     enabled |-> en, last_loaded_time |-> NoTime]

\* a run of the interval or CLI loader over all instruments, empty candle table
Init ==
    /\ InitDriverCommon
    /\ candles = {}
    /\ written = <<>>
    /\ \E known \in SUBSET Figis : \E en \in [known -> BOOLEAN] :
          instruments = {InstrumentRow(f, en[f]) : f \in known}
    /\ loader \in {"interval", "cli"}
    /\ figiFlag \in IF loader = "cli" THEN {0} \cup Figis ELSE {0}
    /\ now = MaxTime + 1
    /\ startDate = MaxTime - 1
    /\ limit = 1

Spec == Init /\ [][NextDriver]_vars

\* one instrument, any start date and API limit, candle table empty or
\* holding one earlier candle of the instrument in its partition
InitLoad ==
    /\ InitDriverCommon
    /\ instruments = {InstrumentRow(1, TRUE)}
    /\ loader = "interval"
    /\ figiFlag = 0
    /\ now = MaxTime + 1
    /\ startDate \in 0..(MaxTime + 2)
    /\ limit \in 1..MaxLimit
    /\ \/ candles = {} /\ written = <<>>
       \/ \E t \in {u \in Times : HasPartition({PartitionFor(u)}, u)} :
             /\ candles = UpsertCandle({}, 1, Candle(t, 1), MainInterval)
             /\ written = Acknowledge(<<>>, 1, Candle(t, 1), MainInterval)

SpecLoad == InitLoad /\ [][NextDriver]_vars

\* one instrument loaded from the start of history into an empty candle
\* table, under a context that its caller may cancel
InitCancel ==
    /\ InitDriverCommon
    /\ instruments = {InstrumentRow(1, TRUE)}
    /\ loader = "interval"
    /\ figiFlag = 0
    /\ now = MaxTime + 1
    /\ startDate = 0
    /\ limit \in 1..MaxLimit
    /\ candles = {}
    /\ written = <<>>

SpecCancel == InitCancel /\ [][NextCancel]_vars

\* one instrument whose pair holds no candle or one candle that is zero, one
\* or two units old when the loader runs; the progress recorded for the
\* instrument is absent (the candle came from the archive loader) or is the
\* time of the candle
InitFresh ==
    /\ InitDriverCommon
    /\ loader = "interval"
    /\ figiFlag = 0
    /\ startDate = 0
    /\ limit \in 1..MaxLimit
    /\ \/ /\ candles = {}
          /\ written = <<>>
          /\ now \in 1..(2 * TimeUnit)
          /\ instruments = {InstrumentRow(1, TRUE)}
       \/ \E t \in {u \in Times : HasPartition({PartitionFor(u)}, u)} :
             /\ candles = UpsertCandle({}, 1, Candle(t, 1), MainInterval)
             /\ written = Acknowledge(<<>>, 1, Candle(t, 1), MainInterval)
             /\ now \in t..(t + 2 * TimeUnit)
             /\ instruments \in {{InstrumentRow(1, TRUE)},
                                 UpdateLastLoadedTime({InstrumentRow(1, TRUE)}, 1, t)}

SpecFresh == InitFresh /\ [][NextDriver]_vars

\* one instrument without candles, a short period to load, and any value of
\* loading.limits for the resolution: the YAML field is an int that nothing
\* validates, so zero and negative values are among them
InitLimit ==
    /\ InitDriverCommon
    /\ instruments = {InstrumentRow(1, TRUE)}
    /\ loader = "interval"
    /\ figiFlag = 0
    /\ now = MaxTime + 1
    /\ startDate \in (MaxTime - 1)..(MaxTime + 1)
    /\ limit \in -1..MaxLimit
    /\ candles = {}
    /\ written = <<>>

SpecLimit == InitLimit /\ [][NextDriver]_vars

\* ---------------------------------------------------------- the price codec
\* config.MaxNanoDigits
MaxNanoDigits == 9
\* the values named in the change log: 272.269999999 and 272.27
ExampleUnits == {272}
ExampleNanos == {269999999, 270000000}

DigitChars == <<"0", "1", "2", "3", "4", "5", "6", "7", "8", "9">>
IsDigit(c) == \E d \in 1..10 : DigitChars[d] = c
DigitVal(c) == (CHOOSE d \in 1..10 : DigitChars[d] = c) - 1

RECURSIVE Pow10(_)
Pow10(k) == IF k = 0 THEN 1 ELSE 10 * Pow10(k - 1)

RECURSIVE NatToStr(_)
\* decimal digits of a natural number
NatToStr(n) ==
    IF n < 10 THEN <<DigitChars[n + 1]>>
    ELSE Append(NatToStr(n \div 10), DigitChars[(n % 10) + 1])

RECURSIVE StrToNat(_)
\* value of a non-empty string of decimal digits
StrToNat(str) ==
    IF Len(str) = 1 THEN DigitVal(str[1])
    ELSE 10 * StrToNat(SubSeq(str, 1, Len(str) - 1)) + DigitVal(str[Len(str)])

RECURSIVE ZeroPad(_, _)
ZeroPad(str, width) == IF Len(str) >= width THEN str ELSE ZeroPad(<<"0">> \o str, width)

\* fmt.Sprintf("%d", n)
SprintfD(n) == IF n < 0 THEN <<"-">> \o NatToStr(0 - n) ELSE NatToStr(n)
\* fmt.Sprintf("%09d", n): the sign counts in the width
Sprintf09D(n) ==
    IF n < 0 THEN <<"-">> \o ZeroPad(NatToStr(0 - n), 8) ELSE ZeroPad(NatToStr(n), 9)

RECURSIVE StripTrailingZeros(_)
\* for len(nanoStr) > 0 && nanoStr[len(nanoStr)-1] == '0' { drop it }
StripTrailingZeros(str) ==
    IF Len(str) > 0 /\ str[Len(str)] = "0"
    THEN StripTrailingZeros(SubSeq(str, 1, Len(str) - 1))
    ELSE str

\* variant: the padded fraction is written as it is
ConvertMoneyValue_KeepZeros(units, nano) ==
    IF nano = 0 THEN SprintfD(units)
    ELSE SprintfD(units) \o <<".">> \o Sprintf09D(nano)

ConvertMoneyValue(units, nano) ==
    IF nano = 0 THEN SprintfD(units)
    ELSE LET nanoStr == StripTrailingZeros(Sprintf09D(nano))
         IN  IF Len(nanoStr) = 0 THEN SprintfD(units)
             ELSE SprintfD(units) \o <<".">> \o nanoStr

RECURSIVE TrimLeft(_)
TrimLeft(str) == IF Len(str) > 0 /\ str[1] = " " THEN TrimLeft(Tail(str)) ELSE str
RECURSIVE TrimRight(_)
TrimRight(str) ==
    IF Len(str) > 0 /\ str[Len(str)] = " "
    THEN TrimRight(SubSeq(str, 1, Len(str) - 1)) ELSE str
\* strings.TrimSpace
TrimSpace(str) == TrimRight(TrimLeft(str))

\* strings.Index(str, "."), 0 when there is none (Go: -1)
DotIndex(str) ==
    IF \E i \in 1..Len(str) : str[i] = "."
    THEN CHOOSE i \in 1..Len(str) : str[i] = "." /\ \A j \in 1..(i - 1) : str[j] # "."
    ELSE 0

\* strconv.ParseInt(str, 10, 32 or 64): an optional sign, then one or more
\* decimal digits; the texts here are too short to leave the 64 bit range,
\* and at 9 characters they cannot leave the 32 bit range either
ParseInt(str) ==
    LET body == IF Len(str) > 0 /\ str[1] \in {"+", "-"} THEN Tail(str) ELSE str
        ok == Len(body) > 0 /\ \A i \in 1..Len(body) : IsDigit(body[i])
    IN  [ok |-> ok,
         val |-> IF ~ok THEN 0
                 ELSE IF str[1] = "-" THEN 0 - StrToNat(body) ELSE StrToNat(body)]

RECURSIVE PadRight(_, _)
\* for len(fractionStr) < 9 { fractionStr += "0" }
PadRight(str, width) == IF Len(str) >= width THEN str ELSE PadRight(Append(str, "0"), width)

\* variant: the fraction is parsed as written, without padding
parsePriceString_NoPad(priceStr) ==
    LET str == TrimSpace(priceStr)
        dot == DotIndex(str)
    IN  IF dot = 0
        THEN IF ParseInt(str).ok THEN Quotation(ParseInt(str).val, 0) ELSE Quotation(0, 0)
        ELSE LET unitsStr == SubSeq(str, 1, dot - 1)
                 fractionStr == SubSeq(str, dot + 1, Len(str))
                 cut == IF Len(fractionStr) > MaxNanoDigits
                        THEN SubSeq(fractionStr, 1, MaxNanoDigits) ELSE fractionStr
             IN  IF ~ParseInt(unitsStr).ok THEN Quotation(0, 0)
                 ELSE IF Len(fractionStr) = 0 THEN Quotation(ParseInt(unitsStr).val, 0)
                 ELSE IF ~ParseInt(cut).ok THEN Quotation(ParseInt(unitsStr).val, 0)
                 ELSE Quotation(ParseInt(unitsStr).val, ParseInt(cut).val)

parsePriceString(priceStr) ==
    LET str == TrimSpace(priceStr)
        dot == DotIndex(str)
    IN  IF dot = 0
        THEN IF ParseInt(str).ok THEN Quotation(ParseInt(str).val, 0) ELSE Quotation(0, 0)
        ELSE LET unitsStr == SubSeq(str, 1, dot - 1)
                 fractionStr == SubSeq(str, dot + 1, Len(str))
                 padded == PadRight(fractionStr, 9)
                 cut == IF Len(padded) > MaxNanoDigits
                        THEN SubSeq(padded, 1, MaxNanoDigits) ELSE padded
             IN  IF ~ParseInt(unitsStr).ok THEN Quotation(0, 0)
                 ELSE IF Len(fractionStr) = 0 THEN Quotation(ParseInt(unitsStr).val, 0)
                 ELSE IF ~ParseInt(cut).ok THEN Quotation(ParseInt(unitsStr).val, 0)
                 ELSE Quotation(ParseInt(unitsStr).val, ParseInt(cut).val)

\* the prices the API can deliver: units of either sign, nano in [0, 10^9)
MoneyUnits == ((0 - MaxUnits)..MaxUnits) \cup ExampleUnits
MoneyNanos ==
    {n \in {a * Pow10(i) + b * Pow10(j) : a \in 0..MaxDigit, b \in 0..MaxDigit,
                                          i \in 0..(MaxNanoDigits - 1),
                                          j \in 0..(MaxNanoDigits - 1)} :
        n < Pow10(MaxNanoDigits)}
    \cup ExampleNanos \cup {Pow10(MaxNanoDigits) - 1}
\* the price fields a CSV row can hold
TextAlphabet == {"0", "1", "5", ".", "-", "+", "a", " "}
LongTexts ==
    {<<"1", ".">> \o Sprintf09D(n) \o <<c>> : n \in ExampleNanos, c \in {"0", "5", "9"}}
PriceTexts == SeqsUpTo(TextAlphabet, MaxText) \cup LongTexts

\* SaveCandles formats a price of the API for the INSERT
MV_Convert ==
    /\ pc = "mv_pair"
    /\ mv_text' = ConvertMoneyValue(mv_in.Units, mv_in.Nano)
    /\ pc' = "mv_text"
    /\ UNCHANGED <<candles, partitions, instruments, caller, scVars, si_ret, calls, cp_ret,
                   locale, faults, written, si_hist, loader, figiFlag, now, startDate,
                   limit, queue, idx, results, exitCode, locals, spacing, cancelled,
                   mv_src, mv_in, mv_out, arch, ext>>

\* processArchive parses a price field of a CSV row
MV_Parse ==
    /\ pc = "mv_text"
    /\ mv_out' = parsePriceString(mv_text)
    /\ pc' = "mv_out"
    /\ UNCHANGED <<candles, partitions, instruments, caller, scVars, si_ret, calls, cp_ret,
                   locale, faults, written, si_hist, loader, figiFlag, now, startDate,
                   limit, queue, idx, results, exitCode, locals, spacing, cancelled,
                   mv_src, mv_in, mv_text, arch, ext>>

NextMoney == MV_Convert \/ MV_Parse

\* a price of the API about to be formatted, or a price field about to be parsed
InitMoney ==
    /\ candles = {}
    /\ partitions = {}
    /\ instruments = {}
    /\ caller = "archive"
    /\ sc_figi = 1
    /\ sc_interval = CandleInterval1Min
    /\ sc_batch = <<>>
    /\ sc_i = 0
    /\ sc_log = <<>>
    /\ sc_ret = "none"
    /\ si_ret = "none"
    /\ cp_ret = "none"
    /\ calls = 0
    /\ locale = "en"
    /\ faults = 0
    /\ written = <<>>
    /\ si_hist = <<>>
    /\ loader = "interval"
    /\ figiFlag = 0
    /\ now = MaxTime + 1
    /\ startDate = 0
    /\ limit = 1
    /\ queue = <<>>
    /\ idx = 0
    /\ results = [f \in Figis |-> "none"]
    /\ exitCode = -1
    /\ lastLoaded = NoTime
    /\ from = NoTime
    /\ to = NoTime
    /\ chunkSize = 0
    /\ currentFrom = NoTime
    /\ currentTo = NoTime
    /\ windows = <<>>
    /\ loadErr = "none"
    /\ spacing = "clear"
    /\ cancelled = FALSE
    /\ IdleArchive
    /\ IdleExt
    /\ mv_out = Quotation(0, 0)
    /\ \/ /\ mv_src = "pair"
          /\ pc = "mv_pair"
          /\ mv_in \in {Quotation(u, n) : u \in MoneyUnits, n \in MoneyNanos}
          /\ mv_text = <<>>
       \/ /\ mv_src = "text"
          /\ pc = "mv_text"
          /\ mv_in = Quotation(0, 0)
          /\ mv_text \in PriceTexts

SpecMoney == InitMoney /\ [][NextMoney]_vars

\* ------------------------------------------------------ the archive loader
\* config.MinCSVFields
MinCSVFields == 7
\* maxRetries of DownloadYearArchive
MaxRetries == 3

\* a line of a CSV file: its number of fields, its timestamp (NoTime when
\* time.Parse rejects it) and whether strconv.ParseInt accepts its volume
GoodRow(t) == [nf |-> MinCSVFields, time |-> t, volOk |-> TRUE]
ShortRow == [nf |-> MinCSVFields - 2, time |-> 0, volOk |-> TRUE]
BadTimeRow == [nf |-> MinCSVFields, time |-> NoTime, volOk |-> TRUE]
BadVolumeRow == [nf |-> MinCSVFields, time |-> 0, volOk |-> FALSE]
\* timestamps of the lines: the first and the last second of a month
RowTimes == {0, MonthLen - 1}
CsvRows == {GoodRow(t) : t \in RowTimes} \cup {ShortRow, BadTimeRow, BadVolumeRow}

\* an entry of the archive: a CSV file with its lines, a file of another
\* kind, or a CSV file that file.Open() cannot open
CsvFile(rows) == [csv |-> TRUE, openOk |-> TRUE, rows |-> rows]
OtherFile == [csv |-> FALSE, openOk |-> TRUE, rows |-> <<>>]
BrokenFile == [csv |-> TRUE, openOk |-> FALSE, rows |-> <<>>]
ArchiveFiles(src) == {CsvFile(rows) : rows \in SeqsUpTo(src.rows, src.max)}
                         \cup {OtherFile, BrokenFile}

RECURSIVE ParseRows(_, _, _)
\* the read loop of processArchive over one file, from line i on.  The
\* csv.Reader is used with FieldsPerRecord = 0: the first record fixes the
\* number of fields, and Read returns ErrFieldCount with every later record
\* of another length, which the loop treats as a read error and skips.
ParseRows(rows, i, fieldsPerRecord) ==
    IF i > Len(rows) THEN <<>>
    ELSE LET r == rows[i]
             fpr == IF fieldsPerRecord = 0 THEN r.nf ELSE fieldsPerRecord
         IN  IF r.nf # fpr THEN ParseRows(rows, i + 1, fpr)
             ELSE IF r.nf < MinCSVFields THEN ParseRows(rows, i + 1, fpr)
             ELSE IF r.time = NoTime THEN ParseRows(rows, i + 1, fpr)
             ELSE IF ~r.volOk THEN ParseRows(rows, i + 1, fpr)
             ELSE <<Candle(r.time, 1)>> \o ParseRows(rows, i + 1, fpr)

FileEntry(f, cs, st) == [file |-> f, candles |-> cs, status |-> st]

\* the figi DownloadYearArchive was called with
ArchFigi == IF idx \in 1..Len(queue) THEN queue[idx] ELSE 1

notArchive == <<instruments, si_ret, calls, cp_ret, locale, written, si_hist, loader,
                figiFlag, now, startDate, limit, queue, idx, results, exitCode, locals,
                spacing, cancelled, money, ext>>

\* variant: the delay stays the same between attempts
NextDelay_Constant(delay) == delay

\* retryDelay *= 2
NextDelay(delay) == delay * 2

\* one pass of the attempt loop of DownloadYearArchive: the request, and
\* after a failure either the sleep before the next attempt or the return
DL_Attempt ==
    /\ pc = "dl_attempt"
    /\ attempt <= MaxRetries
    /\ \E outcome \in {"ok", "status", "transport"} :
         /\ dl_log' = Append(dl_log, outcome)
         /\ IF outcome = "ok"
            THEN /\ pc' = "dl_store"
                 /\ UNCHANGED <<attempt, retryDelay, dl_sleeps, dl_ret>>
            ELSE IF attempt < MaxRetries
            THEN /\ dl_sleeps' = Append(dl_sleeps, retryDelay)
                 /\ retryDelay' = NextDelay(retryDelay)
                 /\ attempt' = attempt + 1
                 /\ pc' = "dl_attempt"
                 /\ dl_ret' = dl_ret
            ELSE /\ dl_ret' = "err_http"
                 /\ pc' = "dl_done"
                 /\ UNCHANGED <<attempt, retryDelay, dl_sleeps>>
    /\ UNCHANGED <<candles, partitions, scFrame, faults, notArchive,
                   pa_n, pa_src, pa_file, pa_f, pa_hist, pa_out, pa_ret>>

\* os.Create and io.Copy of the response body into the temporary file
DL_Store ==
    /\ pc = "dl_store"
    /\ \E ok \in OkChoices :
         /\ Spend(~ok)
         /\ IF ok
            THEN pc' = "pa_open" /\ dl_ret' = dl_ret
            ELSE pc' = "dl_done" /\ dl_ret' = "err_file"
    /\ UNCHANGED <<candles, partitions, scFrame, notArchive,
                   pa_n, pa_src, pa_file, pa_f, pa_hist, pa_out, pa_ret, attempt, retryDelay, dl_log,
                   dl_sleeps>>

\* processArchive: zip.OpenReader
PA_Open ==
    /\ pc = "pa_open"
    /\ \E ok \in OkChoices :
         /\ Spend(~ok)
         /\ IF ok
            THEN /\ pc' = "pa_loop"
                 /\ pa_f' = 1
                 /\ UNCHANGED <<pa_ret, dl_ret>>
            ELSE /\ pc' = "dl_done"
                 /\ pa_ret' = "err_zip"
                 /\ dl_ret' = "err_archive"
                 /\ pa_f' = pa_f
    /\ UNCHANGED <<candles, partitions, scFrame, notArchive,
                   pa_n, pa_src, pa_file, pa_hist, pa_out, attempt, retryDelay, dl_log, dl_sleeps>>

\* one file of the archive up to the call of SaveCandles: skip a file that
\* is not CSV, open it, read all its lines, close it
PA_File ==
    /\ pc = "pa_loop"
    /\ pa_f <= pa_n
    /\ \E file \in ArchiveFiles(pa_src) :
       IF ~file.csv
       THEN /\ pa_hist' = Append(pa_hist, FileEntry(pa_f, <<>>, "not_csv"))
            /\ pa_f' = pa_f + 1
            /\ UNCHANGED <<pc, pa_file, pa_ret, dl_ret>>
       ELSE IF ~file.openOk
       THEN /\ pa_hist' = Append(pa_hist, FileEntry(pa_f, <<>>, "open_err"))
            /\ pa_ret' = "err_open"
            /\ dl_ret' = "err_archive"
            /\ pc' = "dl_done"
            /\ UNCHANGED <<pa_f, pa_file>>
       ELSE /\ pa_file' = file
            /\ pc' = "pa_read"
            /\ UNCHANGED <<pa_f, pa_hist, pa_ret, dl_ret>>
    /\ UNCHANGED <<candles, partitions, faults, notArchive, scFrame,
                   pa_n, pa_src, pa_out, attempt, retryDelay, dl_log, dl_sleeps>>

\* the lines of the opened file are read to the end, the file is closed, and
\* the candles of the file, if any, are handed to SaveCandles
PA_Read ==
    /\ pc = "pa_read"
    /\ LET fileCandles == ParseRows(pa_file.rows, 1, 0)
       IN  IF Len(fileCandles) = 0
           THEN /\ pa_hist' = Append(pa_hist, FileEntry(pa_f, <<>>, "empty"))
                /\ pa_f' = pa_f + 1
                /\ pc' = "pa_loop"
                /\ UNCHANGED scFrame
           ELSE /\ pa_hist' = Append(pa_hist, FileEntry(pa_f, fileCandles, "saving"))
                /\ caller' = "pa"
                /\ sc_figi' = ArchFigi
                /\ sc_interval' = CandleInterval1Min
                /\ sc_batch' = fileCandles
                /\ sc_i' = 1
                /\ sc_log' = <<>>
                /\ sc_ret' = "none"
                /\ pc' = "sc_insert"
                /\ UNCHANGED pa_f
    /\ pa_file' = OtherFile
    /\ UNCHANGED <<candles, partitions, faults, notArchive,
                   pa_n, pa_src, pa_out, pa_ret, attempt, retryDelay, dl_log, dl_sleeps,
                   dl_ret>>

\* variant: a failed save ends processArchive with the error
PA_Saved_ReturnError ==
    /\ pc = "pa_saved"
    /\ IF sc_ret = "nil"
       THEN /\ pa_hist' = [pa_hist EXCEPT ![Len(pa_hist)].status = "saved"]
            /\ pa_out' = pa_out \o sc_batch
            /\ pa_f' = pa_f + 1
            /\ pc' = "pa_loop"
            /\ UNCHANGED <<pa_ret, dl_ret>>
       ELSE /\ pa_hist' = [pa_hist EXCEPT ![Len(pa_hist)].status = "save_err"]
            /\ pa_ret' = "err_save"
            /\ dl_ret' = "err_archive"
            /\ pc' = "dl_done"
            /\ UNCHANGED <<pa_out, pa_f>>
    /\ UNCHANGED <<candles, partitions, scFrame, faults, notArchive,
                   pa_n, pa_src, pa_file, attempt, retryDelay, dl_log, dl_sleeps>>

\* after SaveCandles returned: on an error warn and go to the next file,
\* otherwise add the candles of the file to the result
PA_Saved ==
    /\ pc = "pa_saved"
    /\ IF sc_ret = "nil"
       THEN /\ pa_hist' = [pa_hist EXCEPT ![Len(pa_hist)].status = "saved"]
            /\ pa_out' = pa_out \o sc_batch
       ELSE /\ pa_hist' = [pa_hist EXCEPT ![Len(pa_hist)].status = "save_err"]
            /\ pa_out' = pa_out
    /\ pa_f' = pa_f + 1
    /\ pc' = "pa_loop"
    /\ UNCHANGED <<candles, partitions, scFrame, faults, notArchive,
                   pa_n, pa_src, pa_file, pa_ret, attempt, retryDelay, dl_log, dl_sleeps, dl_ret>>

\* the file loop is over: processArchive returns the candles and nil, and
\* DownloadYearArchive returns that
PA_Done ==
    /\ pc = "pa_loop"
    /\ pa_f > pa_n
    /\ pa_ret' = "nil"
    /\ dl_ret' = "nil"
    /\ pc' = "dl_done"
    /\ UNCHANGED <<candles, partitions, scFrame, faults, notArchive,
                   pa_n, pa_src, pa_file, pa_f, pa_hist, pa_out, attempt, retryDelay, dl_log,
                   dl_sleeps>>

NextArchive ==
    \/ PA_Open
    \/ PA_File
    \/ PA_Read
    \/ SC_Insert
    \/ SC_CreatePartition
    \/ SC_Retry
    \/ PA_Saved
    \/ PA_Done

NextDownload ==
    \/ DL_Attempt
    \/ DL_Store
    \/ NextArchive

\* the archive loader has created the partitions of the year and holds no
\* candle yet
InitArchiveCommon ==
    /\ candles = {}
    /\ partitions = CreateMonths({}, 0, MonthsPerYear)
    /\ instruments = {}
    /\ caller = "pa"
    /\ sc_figi = 1
    /\ sc_interval = CandleInterval1Min
    /\ sc_batch = <<>>
    /\ sc_i = 0
    /\ sc_log = <<>>
    /\ sc_ret = "none"
    /\ si_ret = "none"
    /\ cp_ret = "nil"
    /\ calls = 0
    /\ locale = "en"
    /\ faults = 0
    /\ written = <<>>
    /\ si_hist = <<>>
    /\ loader = "archive"
    /\ figiFlag = 0
    /\ now = MaxTime + 1
    /\ startDate = 0
    /\ limit = 1
    /\ queue = <<>>
    /\ idx = 0
    /\ results = [f \in Figis |-> "none"]
    /\ exitCode = -1
    /\ lastLoaded = NoTime
    /\ from = NoTime
    /\ to = NoTime
    /\ chunkSize = 0
    /\ currentFrom = NoTime
    /\ currentTo = NoTime
    /\ windows = <<>>
    /\ loadErr = "none"
    /\ spacing = "clear"
    /\ cancelled = FALSE
    /\ IdleMoney
    /\ IdleExt
    /\ pa_src = [rows |-> CsvRows, max |-> MaxRows]
    /\ pa_file = OtherFile
    /\ pa_f = 0
    /\ pa_hist = <<>>
    /\ pa_out = <<>>
    /\ pa_ret = "none"
    /\ attempt = 1
    /\ retryDelay = DefaultRetryDelay
    /\ dl_log = <<>>
    /\ dl_sleeps = <<>>
    /\ dl_ret = "none"

\* processArchive is called on a downloaded archive
InitArchive ==
    /\ InitArchiveCommon
    /\ pc = "pa_open"
    /\ pa_n \in 0..MaxFiles

SpecArchive == InitArchive /\ [][NextArchive]_vars

\* DownloadYearArchive is called for one instrument and year
InitDownload ==
    /\ InitArchiveCommon
    /\ pc = "dl_attempt"
    /\ pa_n \in 0..1

SpecDownload == InitDownload /\ [][NextDownload]_vars

\* ------------------------------------------------------- the chunk planner
\* the store is empty and SaveCandles is not running
QuietStore ==
    /\ candles = {}
    /\ partitions = {}
    /\ instruments = {}
    /\ caller = "archive"
    /\ sc_figi = 1
    /\ sc_interval = CandleInterval1Min
    /\ sc_batch = <<>>
    /\ sc_i = 0
    /\ sc_log = <<>>
    /\ sc_ret = "none"
    /\ si_ret = "none"
    /\ cp_ret = "none"
    /\ calls = 0
    /\ locale = "en"
    /\ faults = 0
    /\ written = <<>>
    /\ si_hist = <<>>
\* the instrument loop of the incremental loaders is not running
QuietLoader ==
    /\ loader = "interval"
    /\ figiFlag = 0
    /\ startDate = 0
    /\ limit = 1
    /\ queue = <<>>
    /\ idx = 0
    /\ results = [f \in Figis |-> "none"]
    /\ exitCode = -1
    /\ lastLoaded = NoTime
    /\ from = NoTime
    /\ to = NoTime
    /\ chunkSize = 0
    /\ currentFrom = NoTime
    /\ currentTo = NoTime
    /\ windows = <<>>
    /\ loadErr = "none"
    /\ spacing = "clear"
    /\ cancelled = FALSE
\* everything but pc and the variables of ext
notExt == <<candles, partitions, instruments, caller, scVars, si_ret, calls, cp_ret,
            locale, faults, written, si_hist, loader, figiFlag, now, startDate,
            limit, queue, idx, results, exitCode, locals, spacing, cancelled,
            money, arch>>

QuietDriver ==
    /\ now = MaxTime + 1
    /\ QuietLoader

\* config constants, durations in minutes
MinutesInHour == 60
HoursInDay == 24
DaysInWeek == 7
DaysInMonth == 30
MinutesInDay == HoursInDay * MinutesInHour

\* the 13 resolutions (CandleInterval...) in the order of ParseInterval, and
\* their texts (CandleIntervalText...)
CandleIntervals ==
    <<"CANDLE_INTERVAL_1_MIN", "CANDLE_INTERVAL_2_MIN", "CANDLE_INTERVAL_3_MIN",
      "CANDLE_INTERVAL_5_MIN", "CANDLE_INTERVAL_10_MIN", "CANDLE_INTERVAL_15_MIN",
      "CANDLE_INTERVAL_30_MIN", "CANDLE_INTERVAL_HOUR", "CANDLE_INTERVAL_2_HOUR",
      "CANDLE_INTERVAL_4_HOUR", "CANDLE_INTERVAL_DAY", "CANDLE_INTERVAL_WEEK",
      "CANDLE_INTERVAL_MONTH">>
CandleIntervalTexts ==
    <<"1min", "2min", "3min", "5min", "10min", "15min", "30min", "1hour", "2hour",
      "4hour", "1day", "1week", "1month">>

\* Interval2text: CANDLE_INTERVAL_1_MIN -> 1min
Interval2text(interval) ==
    CandleIntervalTexts[CHOOSE k \in 1..Len(CandleIntervals) : CandleIntervals[k] = interval]

\* GetTimeUnitAndConfigKey: the time unit, in minutes, and the key of
\* loading.limits that LoadCandleData reads
GetTimeUnitAndConfigKey(intervalType) ==
    IF intervalType \in {"CANDLE_INTERVAL_1_MIN", "CANDLE_INTERVAL_2_MIN",
                         "CANDLE_INTERVAL_3_MIN", "CANDLE_INTERVAL_5_MIN",
                         "CANDLE_INTERVAL_10_MIN", "CANDLE_INTERVAL_15_MIN",
                         "CANDLE_INTERVAL_30_MIN", "CANDLE_INTERVAL_HOUR"}
    THEN [unit |-> 1, key |-> "1min"]
    ELSE IF intervalType \in {"CANDLE_INTERVAL_2_HOUR", "CANDLE_INTERVAL_4_HOUR"}
    THEN [unit |-> MinutesInHour, key |-> "1hour"]
    ELSE IF intervalType = "CANDLE_INTERVAL_DAY"
    THEN [unit |-> HoursInDay * MinutesInHour, key |-> "1day"]
    ELSE IF intervalType = "CANDLE_INTERVAL_WEEK"
    THEN [unit |-> DaysInWeek * HoursInDay * MinutesInHour, key |-> "1week"]
    ELSE IF intervalType = "CANDLE_INTERVAL_MONTH"
    THEN [unit |-> DaysInMonth * HoursInDay * MinutesInHour, key |-> "1month"]
    ELSE [unit |-> 1, key |-> "1min"]

\* Config.GetIntervalLimit
GetIntervalLimit(limits, interval) ==
    IF interval \in DOMAIN limits THEN limits[interval] ELSE MinutesInDay

\* chunkSize := time.Duration(cfg.GetIntervalLimit(configKey)) * timeUnit
ChunkSize(limits, intervalType) ==
    GetIntervalLimit(limits, GetTimeUnitAndConfigKey(intervalType).key)
        * GetTimeUnitAndConfigKey(intervalType).unit

\* the values of loading.limits: small ones and the 30 of the daily example
LimitValues == (1..MaxLimit) \cup {30}
\* the tables of loading.limits: at most two resolutions are given a limit
LimitTables ==
    UNION {[K -> LimitValues] :
             K \in {L \in SUBSET {CandleIntervalTexts[k] : k \in 1..Len(CandleIntervalTexts)} :
                       Cardinality(L) <= 2}}

\* LoadCandleData computes the chunk size of its resolution
CK_Plan ==
    /\ pc = "ck_in"
    /\ ck_chunk' = ChunkSize(ck_limits, ck_interval)
    /\ pc' = "ck_out"
    /\ UNCHANGED <<notExt, ck_interval, ck_limits, imp, zn, sync, rd>>

NextChunk == CK_Plan

InitChunk ==
    /\ QuietStore
    /\ QuietDriver
    /\ IdleMoney
    /\ IdleArchive
    /\ IdleImport
    /\ IdleZone
    /\ IdleSync
    /\ IdleRead
    /\ pc = "ck_in"
    /\ ck_interval \in {CandleIntervals[k] : k \in 1..Len(CandleIntervals)}
    /\ ck_limits \in LimitTables
    /\ ck_chunk = 0

SpecChunk == InitChunk /\ [][NextChunk]_vars

\* --------------------------------------------- main of the archive loader
\* all monthly partitions of the year exist
YearPartitioned(parts, year) ==
    \A m \in 1..MonthsPerYear :
        \E q \in parts : q.name = PartitionFor(YearMonthStart(year, m)).name

AmEvent(f, y, e) == [figi |-> f, year |-> y, ev |-> e]

\* currentYear of the archive loader
CurrentYear == Max(Years)

\* variant: a failed CreateYearPartitions is logged and the archive of the
\* year is downloaded all the same
AM_Year_IgnoreError ==
    /\ pc = "am_year"
    /\ idx <= Len(queue)
    /\ am_year <= CurrentYear
    /\ \E done \in IF faults < MaxFaults THEN 0..MonthsPerYear ELSE {MonthsPerYear} :
         /\ Spend(done < MonthsPerYear)
         /\ partitions' = CreateMonths(partitions, am_year, done)
         /\ cp_ret' = IF done = MonthsPerYear THEN "nil" ELSE "err"
         /\ am_log' = Append(am_log, AmEvent(Cur, am_year,
                         IF done = MonthsPerYear THEN "partitions" ELSE "partitions_err"))
         /\ pc' = "dl_attempt"
         /\ am_year' = am_year
    /\ pa_f' = 0
    /\ pa_hist' = <<>>
    /\ pa_out' = <<>>
    /\ pa_ret' = "none"
    /\ attempt' = 1
    /\ retryDelay' = DefaultRetryDelay
    /\ dl_log' = <<>>
    /\ dl_sleeps' = <<>>
    /\ dl_ret' = "none"
    /\ UNCHANGED <<candles, instruments, scFrame, si_ret, calls, locale, written, si_hist,
                   loader, figiFlag, now, startDate, limit, queue, idx, results, exitCode,
                   locals, spacing, cancelled, money, plan, zn, sync, rd, pa_n, pa_src, pa_file>>

\* one pass of the year loop up to the call of DownloadYearArchive:
\* CreateYearPartitions, which stops at the first month that fails, then
\* "continue" on its error or the call of DownloadYearArchive
AM_Year ==
    /\ pc = "am_year"
    /\ idx <= Len(queue)
    /\ am_year <= CurrentYear
    /\ \E done \in IF faults < MaxFaults THEN 0..MonthsPerYear ELSE {MonthsPerYear} :
         /\ Spend(done < MonthsPerYear)
         /\ partitions' = CreateMonths(partitions, am_year, done)
         /\ cp_ret' = IF done = MonthsPerYear THEN "nil" ELSE "err"
         /\ IF done = MonthsPerYear
            THEN /\ am_log' = Append(am_log, AmEvent(Cur, am_year, "partitions"))
                 /\ pc' = "dl_attempt"
                 /\ am_year' = am_year
            ELSE /\ am_log' = Append(am_log, AmEvent(Cur, am_year, "partitions_err"))
                 /\ pc' = "am_year"
                 /\ am_year' = am_year + 1
    /\ pa_f' = 0
    /\ pa_hist' = <<>>
    /\ pa_out' = <<>>
    /\ pa_ret' = "none"
    /\ attempt' = 1
    /\ retryDelay' = DefaultRetryDelay
    /\ dl_log' = <<>>
    /\ dl_sleeps' = <<>>
    /\ dl_ret' = "none"
    /\ UNCHANGED <<candles, instruments, scFrame, si_ret, calls, locale, written, si_hist,
                   loader, figiFlag, now, startDate, limit, queue, idx, results, exitCode,
                   locals, spacing, cancelled, money, plan, zn, sync, rd, pa_n, pa_src, pa_file>>

\* DownloadYearArchive returned and its locals are gone: warn and "continue",
\* or count the candles
AM_After ==
    /\ pc = "dl_done"
    /\ am_log' = Append(am_log, AmEvent(Cur, am_year,
                    IF dl_ret = "nil" THEN "imported" ELSE "import_err"))
    /\ am_year' = am_year + 1
    /\ pc' = "am_year"
    /\ pa_f' = 0
    /\ pa_hist' = <<>>
    /\ pa_out' = <<>>
    /\ pa_ret' = "none"
    /\ attempt' = 1
    /\ retryDelay' = DefaultRetryDelay
    /\ dl_log' = <<>>
    /\ dl_sleeps' = <<>>
    /\ dl_ret' = "none"
    /\ UNCHANGED <<candles, partitions, instruments, scFrame, faults, si_ret, calls, cp_ret,
                   locale, written, si_hist, loader, figiFlag, now, startDate, limit,
                   queue, idx, results, exitCode, locals, spacing, cancelled, money, plan, zn, sync, rd,
                   pa_n, pa_src, pa_file>>

\* the year loop of an instrument is over: the next instrument, or the end
AM_Next ==
    /\ pc = "am_year"
    /\ \/ /\ idx <= Len(queue)
          /\ am_year > CurrentYear
          /\ idx' = idx + 1
          /\ am_year' = Min(Years)
          /\ pc' = pc
          /\ exitCode' = exitCode
       \/ /\ idx > Len(queue)
          /\ pc' = "done"
          /\ exitCode' = 0
          /\ UNCHANGED <<idx, am_year>>
    /\ UNCHANGED <<candles, partitions, instruments, scFrame, faults, si_ret, calls, cp_ret,
                   locale, written, si_hist, loader, figiFlag, now, startDate, limit,
                   queue, results, locals, spacing, cancelled, money, plan, zn, sync, rd, arch, am_log>>

NextImport ==
    \/ AM_Year
    \/ AM_After
    \/ AM_Next
    \/ NextDownload

\* the archive loader after app.Initialize: the enabled instruments are
\* loaded, the partition of the current month exists, no candle is stored
InitImportCommon ==
    /\ now = MaxTime + 1
    /\ candles = {}
    /\ written = <<>>
    /\ partitions = ExecCreatePartition({}, now)
    /\ \E en \in [Figis -> BOOLEAN] :
          instruments = {InstrumentRow(f, en[f]) : f \in Figis}
    /\ queue = SortedSeq(EnabledFigis(instruments))
    /\ idx = 1
    /\ caller = "pa"
    /\ sc_figi = 1
    /\ sc_interval = CandleInterval1Min
    /\ sc_batch = <<>>
    /\ sc_i = 0
    /\ sc_log = <<>>
    /\ sc_ret = "none"
    /\ si_ret = "none"
    /\ cp_ret = "none"
    /\ calls = 0
    /\ locale = "en"
    /\ faults = 0
    /\ si_hist = <<>>
    /\ loader = "archive"
    /\ figiFlag = 0
    /\ startDate = 0
    /\ limit = 1
    /\ results = [f \in Figis |-> "none"]
    /\ exitCode = -1
    /\ lastLoaded = NoTime
    /\ from = NoTime
    /\ to = NoTime
    /\ chunkSize = 0
    /\ currentFrom = NoTime
    /\ currentTo = NoTime
    /\ windows = <<>>
    /\ loadErr = "none"
    /\ spacing = "clear"
    /\ cancelled = FALSE
    /\ IdleMoney
    /\ IdlePlan
    /\ IdleZone
    /\ IdleSync
    /\ IdleRead
    /\ pa_src = [rows |-> {GoodRow(t) : t \in RowTimes \cup {MonthLen}}, max |-> 1]
    /\ pa_file = OtherFile
    /\ pa_f = 0
    /\ pa_hist = <<>>
    /\ pa_out = <<>>
    /\ pa_ret = "none"
    /\ attempt = 1
    /\ retryDelay = DefaultRetryDelay
    /\ dl_log = <<>>
    /\ dl_sleeps = <<>>
    /\ dl_ret = "none"
    /\ am_year = Min(Years)
    /\ am_log = <<>>
    /\ pc = "am_year"

InitImport ==
    /\ InitImportCommon
    /\ pa_n \in 0..1

SpecImport == InitImport /\ [][NextImport]_vars

\* the same run over archives of MaxFiles files
InitFiles ==
    /\ InitImportCommon
    /\ pa_n = MaxFiles

SpecFiles == InitFiles /\ [][NextImport]_vars

\* ---------------------------------------- CreatePartition and time zones
\* everything but the variables the partition calls change
notZone == <<candles, instruments, pc, caller, scVars, si_ret, calls, cp_ret, locale,
             faults, written, si_hist, loader, figiFlag, startDate, limit, queue, idx,
             results, exitCode, locals, spacing, cancelled, money, arch, plan, imp, zone,
             sync, rd>>

\* what a call of CreatePartition for the instant t asked for
PartitionCall(t, z) == [instant |-> t, part |-> PartitionFor(WallClock(t, z))]

\* CreateInitialPartition: CreatePartition(dbpool, time.Now()); time.Now()
\* carries the location time.Local
ZN_Initial ==
    /\ pc = "zone"
    /\ partitions' = ExecCreatePartition(partitions, WallClock(now, zone))
    /\ zn_calls' = zn_calls \cup {PartitionCall(now, zone)}
    /\ UNCHANGED <<notZone, now>>

\* CreatePartition(dbpool, candle.Time) of SaveCandles and
\* CreatePartition(dbpool, time.Date(..., time.UTC)) of CreateYearPartitions:
\* the times of the API (AsTime), of the archives (time.Parse with a literal
\* Z) and of time.Date(..., time.UTC) carry the location UTC
ZN_Utc ==
    /\ pc = "zone"
    /\ \E t \in Times :
         /\ partitions' = ExecCreatePartition(partitions, WallClock(t, 0))
         /\ zn_calls' = zn_calls \cup {PartitionCall(t, 0)}
    /\ UNCHANGED <<notZone, now>>

\* time passes
ZN_Tick ==
    /\ pc = "zone"
    /\ now < MaxTime
    /\ now' = now + 1
    /\ UNCHANGED <<notZone, partitions, zn_calls>>

NextZone == ZN_Initial \/ ZN_Utc \/ ZN_Tick

\* a database without partitions on a host of any time zone
InitZone ==
    /\ QuietStore
    /\ QuietLoader
    /\ now = 0
    /\ IdleMoney
    /\ IdleArchive
    /\ IdlePlan
    /\ IdleImport
    /\ IdleSync
    /\ IdleRead
    /\ pc = "zone"
    /\ zone \in (0 - MaxOffset)..MaxOffset
    /\ zn_calls = {}

SpecZone == InitZone /\ [][NextZone]_vars

\* ------------------------------- processInstruments and the dividend sync
\* everything the two loops leave alone
notSync == <<candles, partitions, caller, scVars, calls, cp_ret, locale, written, loader,
             figiFlag, now, startDate, limit, queue, idx, results, exitCode, locals,
             spacing, cancelled, money, arch, plan, imp, zn, rd>>

\* return fmt.Errorf("...: %w", err) after a statement: the error is built
\* whether err is nil or not, and is never nil
Errorf(ok) == IF ok THEN "wrapped_nil" ELSE "err"

Dividend(f, t, v) == [figi |-> f, payment_date |-> t, amount |-> v]

\* INSERT INTO dividends ... ON CONFLICT (figi, payment_date) DO UPDATE SET ...
UpsertDividend(rows, dv) ==
    {r \in rows : ~(r.figi = dv.figi /\ r.payment_date = dv.payment_date)} \cup {dv}

\* SELECT MAX(payment_date) FROM dividends WHERE figi = $1
GetLastDividendDate(rows, f) ==
    LET ts == {r.payment_date : r \in {q \in rows : q.figi = f}}
    IN  IF ts = {} THEN NoTime ELSE Max(ts)

\* the instrument ProcessInstrumentDividends is called for
DivFigi == 1

\* one iteration of processInstruments of internal/data: a record of normal
\* trading status is built and saved, and counted when SaveInstrument
\* returned nil; after an error the loop continues
PI_Step ==
    /\ pc = "pi_loop"
    /\ pi_i <= Len(pi_batch)
    /\ LET v == pi_batch[pi_i]
           inst == CreateInstrumentFromProto(v)
       IN  IF IsNormalTrading(v.TradingStatus)
           THEN \E ok \in OkChoices :
                  /\ Spend(~ok)
                  /\ IF ok
                     THEN /\ instruments' = UpsertInstrument(instruments, inst)
                          /\ si_hist' = Remember(si_hist, inst)
                     ELSE UNCHANGED <<instruments, si_hist>>
                  /\ si_ret' = Errorf(ok)
                  /\ pi_count' = IF si_ret' = "nil" THEN pi_count + 1 ELSE pi_count
           ELSE UNCHANGED <<instruments, si_hist, si_ret, pi_count, faults>>
    /\ pi_i' = pi_i + 1
    /\ UNCHANGED <<notSync, pc, pi_batch, dividends, dv_batch, dv_i, dv_sret, dv_ret>>

\* the loop of processInstruments is over: it logs the count and returns nil
PI_Done ==
    /\ pc = "pi_loop"
    /\ pi_i > Len(pi_batch)
    /\ pc' = "dv_start"
    /\ UNCHANGED <<notSync, instruments, si_hist, si_ret, faults, sync>>

\* ProcessInstrumentDividends up to its save loop: the period starts the day
\* after the last stored payment, nothing is done when that is in the future,
\* and a failed LoadDividends is returned
PD_Start ==
    /\ pc = "dv_start"
    /\ LET last == GetLastDividendDate(dividends, DivFigi)
           startTime == IF last = NoTime THEN startDate ELSE last + 1
       IN  IF startTime > now
           THEN /\ dv_ret' = "nil"
                /\ pc' = "sync_done"
                /\ UNCHANGED <<dv_batch, dv_i, faults>>
           ELSE \E ok \in OkChoices :
                  /\ Spend(~ok)
                  /\ IF ~ok
                     THEN /\ dv_ret' = "err_load"
                          /\ pc' = "sync_done"
                          /\ UNCHANGED <<dv_batch, dv_i>>
                     ELSE \E S \in SUBSET {t \in Times : startTime <= t /\ t <= now},
                             v \in Vals :
                            /\ Cardinality(S) <= MaxBatch
                            /\ dv_batch' = [k \in 1..Cardinality(S) |->
                                               Dividend(DivFigi, SortedSeq(S)[k], v)]
                            /\ dv_i' = 1
                            /\ dv_ret' = dv_ret
                            /\ pc' = "dv_loop"
    /\ UNCHANGED <<notSync, instruments, si_hist, si_ret, pi_batch, pi_i, pi_count,
                   dividends, dv_sret>>

\* one iteration of the save loop of ProcessInstrumentDividends:
\* SaveDividend, and the return of its error when it is not nil
PD_Save ==
    /\ pc = "dv_loop"
    /\ dv_i <= Len(dv_batch)
    /\ \E ok \in OkChoices :
         /\ Spend(~ok)
         /\ dividends' = IF ok THEN UpsertDividend(dividends, dv_batch[dv_i])
                                ELSE dividends
         /\ dv_sret' = Errorf(ok)
         /\ IF dv_sret' = "nil"
            THEN /\ dv_i' = dv_i + 1
                 /\ UNCHANGED <<dv_ret, pc>>
            ELSE /\ dv_ret' = "err_save"
                 /\ pc' = "sync_done"
                 /\ dv_i' = dv_i
    /\ UNCHANGED <<notSync, instruments, si_hist, si_ret, pi_batch, pi_i, pi_count,
                   dv_batch>>

\* the save loop is over, or there was nothing to save: return nil
PD_Done ==
    /\ pc = "dv_loop"
    /\ dv_i > Len(dv_batch)
    /\ dv_ret' = "nil"
    /\ pc' = "sync_done"
    /\ UNCHANGED <<notSync, instruments, si_hist, si_ret, faults, pi_batch, pi_i, pi_count,
                   dividends, dv_batch, dv_i, dv_sret>>

NextSync == PI_Step \/ PI_Done \/ PD_Start \/ PD_Save \/ PD_Done

\* processInstruments over any answer of the instruments API, then the
\* dividends of one instrument, on an empty instruments table
InitSync ==
    /\ QuietStore
    /\ QuietDriver
    /\ IdleMoney
    /\ IdleArchive
    /\ IdlePlan
    /\ IdleImport
    /\ IdleZone
    /\ IdleRead
    /\ pc = "pi_loop"
    /\ pi_batch \in SeqsUpTo(ProtoInstruments, MaxBatch)
    /\ pi_i = 1
    /\ pi_count = 0
    /\ dividends \in {{}, {Dividend(DivFigi, 0, 1)}}
    /\ dv_batch = <<>>
    /\ dv_i = 0
    /\ dv_sret = "none"
    /\ dv_ret = "none"

SpecSync == InitSync /\ [][NextSync]_vars

\* ------------------------------------ the read loop of processArchive
\* everything but pc and the variables of the reader
notRead == <<candles, partitions, instruments, caller, scVars, si_ret, calls, cp_ret,
             locale, faults, written, si_hist, loader, figiFlag, now, startDate,
             limit, queue, idx, results, exitCode, locals, spacing, cancelled,
             money, arch, plan, imp, zn, sync>>

\* one iteration of "for { record, err := csvReader.Read() ... }": break on
\* io.EOF, warn and continue on any other error, else parse the record.
\* Where the compressed entry is corrupt the decompressor keeps its error,
\* and Read returns it on every call without consuming input; ErrFieldCount
\* comes with a consumed line.  The history counter stops at MaxReads.
RD_Read ==
    /\ pc = "rd_loop"
    /\ rd_reads < MaxReads
    /\ rd_reads' = rd_reads + 1
    /\ IF rd_bad > 0 /\ rd_pos >= rd_bad - 1
       THEN UNCHANGED <<pc, rd_pos, rd_fpr, rd_out>>
       ELSE IF rd_pos = Len(rd_rows)
            THEN /\ pc' = "rd_close"
                 /\ UNCHANGED <<rd_pos, rd_fpr, rd_out>>
            ELSE LET r == rd_rows[rd_pos + 1]
                     fpr == IF rd_fpr = 0 THEN r.nf ELSE rd_fpr
                 IN  /\ rd_pos' = rd_pos + 1
                     /\ rd_fpr' = fpr
                     /\ rd_out' = IF \/ r.nf # fpr
                                     \/ r.nf < MinCSVFields
                                     \/ r.time = NoTime
                                     \/ ~r.volOk
                                  THEN rd_out
                                  ELSE Append(rd_out, Candle(r.time, 1))
                     /\ pc' = pc
    /\ UNCHANGED <<notRead, rd_rows, rd_bad>>

\* after the loop: rc.Close() and on to SaveCandles
RD_Close ==
    /\ pc = "rd_close"
    /\ pc' = "rd_done"
    /\ UNCHANGED <<notRead, rd>>

NextRead == RD_Read \/ RD_Close

\* any CSV file, sound or corrupt from some line on
InitRead ==
    /\ QuietStore
    /\ QuietDriver
    /\ IdleMoney
    /\ IdleArchive
    /\ IdlePlan
    /\ IdleImport
    /\ IdleZone
    /\ IdleSync
    /\ pc = "rd_loop"
    /\ rd_rows \in SeqsUpTo(CsvRows, MaxRows)
    /\ rd_bad \in 0..(Len(rd_rows) + 1)
    /\ rd_pos = 0
    /\ rd_fpr = 0
    /\ rd_reads = 0
    /\ rd_out = <<>>

SpecRead == InitRead /\ [][NextRead]_vars



\* ================================================================ claims
\* ---- helpers over the statement log of the current SaveCandles call
Events(op, i) == {k \in 1..Len(sc_log) : sc_log[k].op = op /\ sc_log[k].i = i}
NoPartitionErrs == {NoPartitionErrEn, NoPartitionErrRu}
SaveErrs == {"err_insert", "err_create", "err_retry"}
RecordDone(i) == sc_i > i \/ sc_ret # "none"
RowOf(k, c) ==
    [figi |-> k[1], time |-> k[2], interval_type |-> k[3],
     open_price |-> c.open, high_price |-> c.high, low_price |-> c.low,
     close_price |-> c.close, volume |-> c.volume]
Persisted(figi, c, interval) ==
    \E r \in candles : SameKey(r, figi, c.time, interval)
\* a failure that ends the handling of its record
Fatal(k) ==
    \/ sc_log[k].op = "insert" /\ ~IsNil(sc_log[k].err)
                               /\ sc_log[k].err \notin NoPartitionErrs
    \/ sc_log[k].op \in {"create", "retry"} /\ ~IsNil(sc_log[k].err)

\* C2: the store holds exactly one row for every key that was ever written,
\* carrying open/high/low/close/volume of the latest acknowledged write, and
\* no two rows share a key (figi, time, interval_type).
C2_OneRowPerKeyLastWriteWins ==
    /\ \A r1 \in candles, r2 \in candles :
          SameKey(r1, r2.figi, r2.time, r2.interval_type) => r1 = r2
    /\ candles = {RowOf(k, written[k]) : k \in DOMAIN written}

\* C2 witness: one batch wrote the same key twice with different values and
\* the store ended with a single row
C2_Witness ==
    /\ sc_ret = "nil"
    /\ Len(sc_batch) = 2
    /\ sc_batch[1].time = sc_batch[2].time
    /\ sc_batch[1].volume # sc_batch[2].volume
    /\ Cardinality(candles) = 1

\* C3: per record at most one insert, one CreatePartition and one retry are
\* executed; a record whose insert failed for a missing partition gets its
\* partition created and, when that succeeded, exactly one retry; a failed
\* CreatePartition or a failed retry makes SaveCandles return a non-nil error.
C3_RetryExactlyOnce ==
    \A i \in 1..Len(sc_batch) :
        /\ Cardinality(Events("insert", i)) <= 1
        /\ Cardinality(Events("create", i)) <= 1
        /\ Cardinality(Events("retry", i)) <= 1
        /\ ((\E k \in Events("insert", i) : sc_log[k].err \in NoPartitionErrs)
               /\ RecordDone(i))
           => /\ Cardinality(Events("create", i)) = 1
              /\ \A k \in Events("create", i) :
                    IF IsNil(sc_log[k].err)
                    THEN Cardinality(Events("retry", i)) = 1
                    ELSE Events("retry", i) = {} /\ sc_ret = "err_create"
        /\ (\E k \in Events("retry", i) : ~IsNil(sc_log[k].err))
           => sc_ret = "err_retry"

\* C3 witness: a record was healed, its retry succeeded and SaveCandles
\* returned nil
C3_Witness ==
    /\ sc_ret = "nil"
    /\ \E k \in 1..Len(sc_log) : sc_log[k].op = "retry" /\ IsNil(sc_log[k].err)

C5_OnlyMissingPartitionHeals ==
    \A k \in 1..Len(sc_log) :
        /\ sc_log[k].op \in {"create", "retry"}
           => \E j \in 1..(k - 1) :
                 /\ sc_log[j].op = "insert"
                 /\ sc_log[j].i = sc_log[k].i
                 /\ sc_log[j].err \in NoPartitionErrs
        /\ (sc_log[k].op = "insert" /\ sc_log[k].err \in {FkErr, NumericErr, ConnErr})
           => k = Len(sc_log) /\ sc_ret = "err_insert"

\* C5 witness: an insert hit a foreign-key violation and was returned
C5_Witness ==
    /\ sc_ret = "err_insert"
    /\ \E k \in 1..Len(sc_log) : sc_log[k].op = "insert" /\ sc_log[k].err = FkErr

\* C6 as stated: every partition covers the whole calendar month it is
\* named after, [monthStart, nextMonthStart).
C6_PartitionCoversMonth ==
    \A p \in partitions : \A t \in Times :
        MonthOf(t) = p.name => (p.lo <= t /\ t < p.hi)

\* C7 as stated: at most one partition per month, and the insert retried
\* after its month's partition was created never misses the partition again.
C7_SelfHealSucceeds ==
    /\ \A p \in partitions, q \in partitions : p.name = q.name => p = q
    /\ \A k \in 1..Len(sc_log) :
          sc_log[k].op = "retry" => sc_log[k].err \notin NoPartitionErrs

\* C8: a row of instruments keeps the enabled flag it was inserted with
\* through every later SaveInstrument, while ticker and trading status are
\* those of the latest acknowledged record.
C8_EnabledPreserved ==
    /\ \A r \in instruments :
          /\ r.figi \in DOMAIN si_hist
          /\ r.enabled = si_hist[r.figi].firstEnabled
          /\ r.ticker = si_hist[r.figi].last.Ticker
          /\ r.trading_status = si_hist[r.figi].last.TradingStatus
    /\ \A f \in DOMAIN si_hist : \E r \in instruments : r.figi = f

\* C8 witness: an enabled row was re-synced with a record that carries
\* enabled = false, took its ticker and is still enabled
C8_Witness ==
    \E r \in instruments :
        /\ r.enabled
        /\ si_hist[r.figi].count = 2
        /\ ~si_hist[r.figi].last.Enabled
        /\ r.ticker = si_hist[r.figi].last.Ticker

\* LoadCandleData has fixed its period and has not been left behind yet
InLoad ==
    /\ pc \in {"lcd_loop", "sc_insert", "sc_create", "sc_retry", "lcd_saved",
               "plr", "main_after"}
    /\ from # NoTime
\* LoadCandleData has returned
Returned == InLoad /\ pc \in {"plr", "main_after"}
\* times of the instrument's stored candles
StoredTimes(figi) ==
    {r.time : r \in {q \in candles : q.figi = figi /\ q.interval_type = MainInterval}}

\* C1: the fetch windows of the chunk loop start at "from", each one ends
\* at min(start + chunkSize, to), each one starts where the one before ended,
\* none is empty or overruns "to", a loop that ran to its end stops exactly
\* at "to", and for from >= to there is no window and no error.
C1_ChunksCoverRange ==
    InLoad =>
      /\ \A i \in 1..Len(windows) :
           /\ windows[i].from = IF i = 1 THEN from ELSE windows[i - 1].to
           /\ windows[i].to = Min({windows[i].from + chunkSize, to})
           /\ windows[i].from < windows[i].to
           /\ windows[i].to <= to
      /\ (Returned /\ loadErr = "nil" /\ from < to) =>
             /\ windows # <<>>
             /\ windows[Len(windows)].to = to
      /\ (Returned /\ from >= to) => windows = <<>> /\ loadErr = "nil"
\* a finished load of at least two windows whose last window was clamped
C1_Witness ==
    /\ Returned
    /\ loadErr = "nil"
    /\ Len(windows) >= 2
    /\ windows[Len(windows)].to = to
    /\ windows[Len(windows)].from + chunkSize > to

\* C9: an instrument whose processing failed does not end the run: the run
\* that reaches its end has processed every instrument of its list and
\* exits with 0, and the process exits with 1 only out of initialization,
\* before any instrument was processed.
C9_InstrumentErrorsIsolated ==
    /\ pc = "done" =>
          /\ exitCode = 0
          /\ \A k \in 1..Len(queue) : results[queue[k]] \in {"ok", "err"}
    /\ exitCode = 1 <=> pc = "fatal"
    /\ pc = "fatal" => \A f \in Figis : results[f] = "none"
    /\ (pc = "main_loop" /\ idx > 1) => results[queue[idx - 1]] \in {"ok", "err"}
\* a finished run whose first instrument failed and whose second one loaded
C9_Witness ==
    /\ pc = "done"
    /\ exitCode = 0
    /\ Len(queue) = 2
    /\ results[queue[1]] = "err"
    /\ results[queue[2]] = "ok"

\* C10: the windows are strictly increasing; every window before the
\* last one was fetched without error and all its candles are stored (so a
\* failed window is the last one); and every candle of the instrument stored
\* by this run belongs to a fetched window.
C10_PersistedIsPrefix ==
    InLoad =>
      /\ \A i \in 1..Len(windows) : \A j \in 1..Len(windows) :
           i < j => windows[i].to <= windows[j].from
      /\ \A i \in 1..(Len(windows) - 1) :
           /\ windows[i].status \in {"saved", "empty"}
           /\ windows[i].times \subseteq StoredTimes(Cur)
      /\ \A t \in StoredTimes(Cur) :
           t # lastLoaded => \E i \in 1..Len(windows) : t \in windows[i].times
      /\ (pc = "lcd_loop" /\ windows # <<>>) =>
             /\ windows[Len(windows)].status \in {"saved", "empty"}
             /\ windows[Len(windows)].times \subseteq StoredTimes(Cur)
\* a load that stored one window and failed in a later one
C10_Witness ==
    /\ Returned
    /\ Len(windows) >= 2
    /\ windows[1].status = "saved"
    /\ windows[Len(windows)].status \in {"save_err", "fetch_err"}
    /\ windows[1].times \subseteq StoredTimes(Cur)

\* the progress recorded for an instrument
LastLoadedTime(rows, figi) ==
    (CHOOSE r \in rows : r.figi = figi).last_loaded_time

\* C11 (as stated): once ProcessInstrument has completed, the recorded
\* progress of the instrument is the maximum stored candle time of the pair,
\* and is absent when nothing is stored.
C11_ProgressIsMaxPersisted ==
    pc = "main_after" =>
        LastLoadedTime(instruments, Cur) = MaxStoredTime(candles, Cur, MainInterval)

\* C11 (amended): ProcessLoadResult returns exactly the load error, and
\* when its read-back and its update both succeed it sets the progress of the
\* instrument to the maximum stored candle time of the pair if there is one;
\* in every other case (nothing stored, read-back or update failed) the
\* instruments table is left as it was.
C11_ProgressFromStore ==
    [][pc = "plr" =>
         /\ pc' = "main_after"
         /\ results'[Cur] = (IF loadErr = "nil" THEN "ok" ELSE "err")
         /\ IF faults' = faults /\ MaxStoredTime(candles, Cur, MainInterval) # NoTime
            THEN /\ LastLoadedTime(instruments', Cur)
                       = MaxStoredTime(candles, Cur, MainInterval)
                 /\ \A r \in instruments : r.figi # Cur => r \in instruments'
            ELSE instruments' = instruments]_vars
\* a load that failed part-way, whose progress is the stored maximum and
\* neither the chunk cursor nor the end of the range
C11_Witness ==
    /\ pc = "main_after"
    /\ Returned
    /\ loadErr # "nil"
    /\ results[Cur] = "err"
    /\ MaxStoredTime(candles, Cur, MainInterval) # NoTime
    /\ LastLoadedTime(instruments, Cur) = MaxStoredTime(candles, Cur, MainInterval)
    /\ LastLoadedTime(instruments, Cur) # currentFrom
    /\ LastLoadedTime(instruments, Cur) # to

\* C12 (as stated): every call of the candle API but the first of the run
\* is preceded by a rate-limit pause taken after the call before it.
C12_PauseBetweenCalls ==
    [][Len(windows') > Len(windows) => spacing = "clear"]_vars

\* C13 (as stated): once the context is cancelled no further fetch window
\* is issued and no further candle is written.
C13_CancelStopsWork ==
    [][cancelled => /\ Len(windows') <= Len(windows)
                    /\ candles' = candles]_vars

\* C14: a price (units >= 0, nano in [0, 10^9)) written by
\* ConvertMoneyValue and read back by parsePriceString is the same price.
C14_CodecRoundTrip ==
    (pc = "mv_out" /\ mv_src = "pair" /\ mv_in.Units >= 0) => mv_out = mv_in
\* 272.27 was written with its trailing zeros stripped and read back
C14_Witness ==
    /\ pc = "mv_out"
    /\ mv_src = "pair"
    /\ mv_in = Quotation(272, 270000000)
    /\ Len(mv_text) = 6
    /\ mv_out = mv_in

\* the text after the integer part and the dot
FractionOf(text, units) == SubSeq(text, Len(SprintfD(units)) + 2, Len(text))
\* C15: the text written for (units, nano) is the integer units alone
\* when nano = 0; otherwise it is the units, a dot and between 1 and 9
\* digits that do not end in 0 and that, read as a 9-digit fraction, are nano.
C15_CanonicalText ==
    (pc \in {"mv_text", "mv_out"} /\ mv_src = "pair") =>
        IF mv_in.Nano = 0
        THEN mv_text = SprintfD(mv_in.Units)
        ELSE LET frac == FractionOf(mv_text, mv_in.Units)
             IN  /\ SubSeq(mv_text, 1, Len(SprintfD(mv_in.Units)) + 1)
                        = SprintfD(mv_in.Units) \o <<".">>
                 /\ Len(frac) \in 1..MaxNanoDigits
                 /\ \A i \in 1..Len(frac) : IsDigit(frac[i])
                 /\ frac[Len(frac)] # "0"
                 /\ StrToNat(frac) * Pow10(MaxNanoDigits - Len(frac)) = mv_in.Nano
\* the three prices of the examples and their texts
C15_Witness ==
    /\ pc = "mv_text"
    /\ mv_src = "pair"
    /\ \/ mv_in = Quotation(272, 269999999)
            /\ mv_text = <<"2", "7", "2", ".", "2", "6", "9", "9", "9", "9", "9", "9", "9">>
       \/ mv_in = Quotation(272, 270000000) /\ mv_text = <<"2", "7", "2", ".", "2", "7">>
       \/ mv_in = Quotation(5, 0) /\ mv_text = <<"5">>

\* a price text as the archive writes it: an optional sign, digits, and
\* optionally a dot followed by digits
WellFormed(text) ==
    LET str == TrimSpace(text)
        body == IF Len(str) > 0 /\ str[1] \in {"+", "-"} THEN Tail(str) ELSE str
        dot == DotIndex(body)
        int == IF dot = 0 THEN body ELSE SubSeq(body, 1, dot - 1)
        frac == IF dot = 0 THEN <<>> ELSE SubSeq(body, dot + 1, Len(body))
    IN  /\ Len(int) > 0
        /\ \A i \in 1..Len(int) : IsDigit(int[i])
        /\ \A i \in 1..Len(frac) : IsDigit(frac[i])
\* C16 (as stated): parsePriceString returns zero units and zero nano for
\* every malformed text, and a nano in [0, 10^9) for every text.
C16_MalformedIsZero ==
    pc = "mv_out" =>
        /\ mv_out.Nano \in 0..(Pow10(MaxNanoDigits) - 1)
        /\ ~WellFormed(mv_text) => mv_out = Quotation(0, 0)

RECURSIVE GoodCandles(_)
\* the candles of the lines that have 7 fields, a timestamp and a volume
GoodCandles(rows) ==
    IF rows = <<>> THEN <<>>
    ELSE IF Head(rows).nf >= MinCSVFields /\ Head(rows).time # NoTime /\ Head(rows).volOk
         THEN <<Candle(Head(rows).time, 1)>> \o GoodCandles(Tail(rows))
         ELSE GoodCandles(Tail(rows))

\* C17 (as stated): the batch of every CSV file that processArchive read
\* holds the candles of all its good lines, in order, and nothing of its
\* short lines and of its lines with a bad timestamp or volume.
C17_BadRowsSkipped ==
    [][pc = "pa_read" =>
          pa_hist'[Len(pa_hist')].candles = GoodCandles(pa_file.rows)]_vars

\* C18: when processArchive turns to a file, every file before it is
\* done with, and the candles of each saved one are in the store; a failed
\* save does not end processArchive: it returns nil after it went through
\* all files, or the error of a file it could not open (or of the archive).
C18_SavedPerFile ==
    /\ \A k \in 1..(Len(pa_hist) - 1) :
         /\ pa_hist[k].status \in {"not_csv", "empty", "saved", "save_err"}
         /\ pa_hist[k].status = "saved" =>
                \A i \in 1..Len(pa_hist[k].candles) :
                    Persisted(1, pa_hist[k].candles[i], CandleInterval1Min)
    /\ \A k \in 1..Len(pa_hist) : pa_hist[k].file = k
    /\ pa_ret = "nil" => Len(pa_hist) = pa_n
    /\ pa_ret \in {"none", "nil", "err_zip", "err_open"}
    /\ pa_ret = "err_open" => pa_hist[Len(pa_hist)].status = "open_err"
\* the save of the first file failed and the second file was saved
C18_Witness ==
    /\ pa_ret = "nil"
    /\ Len(pa_hist) = 2
    /\ pa_hist[1].status = "save_err"
    /\ pa_hist[2].status = "saved"
    /\ \A i \in 1..Len(pa_hist[2].candles) :
           Persisted(1, pa_hist[2].candles[i], CandleInterval1Min)

\* number of attempts that did not answer with HTTP 200
Failed(log) == Cardinality({i \in 1..Len(log) : log[i] # "ok"})
\* C19: DownloadYearArchive makes at most 3 attempts, sleeps 5 s and
\* then 10 s after the failed attempts but the last, hands the archive on
\* only after an attempt that answered 200, and after 3 failed attempts
\* returns an error with nothing processed and no candle stored.
C19_DownloadRetries ==
    /\ Len(dl_log) <= MaxRetries
    /\ \A i \in 1..(Len(dl_log) - 1) : dl_log[i] # "ok"
    /\ dl_sleeps = SubSeq(<<DefaultRetryDelay, 2 * DefaultRetryDelay>>, 1, Len(dl_sleeps))
    /\ Len(dl_sleeps) = IF Failed(dl_log) = MaxRetries THEN MaxRetries - 1
                        ELSE Failed(dl_log)
    /\ (pc \notin {"dl_attempt", "dl_done"} \/ pa_ret # "none" \/ pa_hist # <<>>
            \/ candles # {}) =>
           (dl_log # <<>> /\ dl_log[Len(dl_log)] = "ok")
    /\ Failed(dl_log) = MaxRetries =>
           /\ pc = "dl_done"
           /\ dl_ret = "err_http"
           /\ pa_ret = "none"
           /\ candles = {}
\* the third attempt answered 200 after sleeps of 5 s and 10 s, and the
\* archive was processed
C19_Witness ==
    /\ Len(dl_log) = 3
    /\ dl_log[3] = "ok"
    /\ dl_sleeps = <<5, 10>>
    /\ pc = "dl_done"
    /\ dl_ret = "nil"
    /\ candles # {}

\* C20: reading the last loaded time of a pair without candles is not an
\* error, and the first fetch window of a run starts at the configured start
\* date when the store holds no candle of the pair, and at the maximum stored
\* candle time of the pair when it holds one.
C20_FirstChunkStart ==
    [][/\ (pc = "pi_start" /\ faults' = faults) => pc' = "lcd_start"
       /\ (Len(windows) = 0 /\ Len(windows') = 1) =>
              windows'[1].from =
                  IF MaxStoredTime(candles, Cur, MainInterval) = NoTime
                  THEN startDate
                  ELSE MaxStoredTime(candles, Cur, MainInterval)]_vars
\* the store held a candle later than the start date and the first window
\* starts at that candle
C20_Witness ==
    /\ InLoad
    /\ Len(windows) = 1
    /\ lastLoaded # NoTime
    /\ lastLoaded > startDate
    /\ windows[1].from = lastLoaded
    /\ lastLoaded \in windows[1].times

\* C21 (as stated): while a pair is processed whose last stored candle time
\* is present and not older than the threshold, no fetch window is issued and
\* the candles, the partitions and the instruments table stay as they are;
\* when the time is absent or older than the threshold, LoadCandleData goes
\* on to its chunk loop.
C21_FreshPairIsNoOp ==
    [][/\ (/\ pc \in {"lcd_start", "lcd_loop", "sc_insert", "sc_create", "sc_retry",
                       "lcd_saved", "plr"}
           /\ lastLoaded # NoTime
           /\ now - lastLoaded <= GetThreshold)
          => /\ windows' = windows
             /\ candles' = candles
             /\ partitions' = partitions
             /\ instruments' = instruments
       /\ (pc = "lcd_start" /\ (lastLoaded = NoTime \/ now - lastLoaded > GetThreshold))
          => pc' = "lcd_loop"]_vars

\* C22 (as stated): every pass of the chunk loop moves the cursor strictly
\* forward, and the loop issues finitely many fetches: at most one per time
\* unit of the period from "from" to "to".
C22_ChunkLoopTerminates ==
    [][Len(windows') > Len(windows) =>
          /\ currentTo' > currentFrom
          /\ Len(windows') * TimeUnit <= to - from]_vars

\* C23 (as stated): the chunk size of a resolution is its time unit times
\* the limit given under the resolution's own text, 1440 standing in only
\* when no limit is given under that text; a daily limit of 30 is 30 days.
C23_ChunkFromOwnKey ==
    pc = "ck_out" =>
        /\ ck_chunk = GetTimeUnitAndConfigKey(ck_interval).unit
                         * (IF Interval2text(ck_interval) \in DOMAIN ck_limits
                            THEN ck_limits[Interval2text(ck_interval)]
                            ELSE 1440)
        /\ (ck_interval = CandleIntervalDay /\ "1day" \in DOMAIN ck_limits
               /\ ck_limits["1day"] = 30)
              => ck_chunk = 30 * 24 * 60

\* C24: in the archive loader a request for an archive, a file of an
\* archive and a candle write happen only right after CreateYearPartitions
\* returned nil for the same instrument and year, with every monthly
\* partition of the year in place; CreateYearPartitions that returns nil
\* leaves every monthly partition of the year in place; called for a year
\* whose partitions exist, with the database answering, it creates nothing
\* and returns nil; and when it returns an error the loop goes on to the
\* next year with no download for this one.
C24_PartitionsBeforeImport ==
    [][/\ (Len(dl_log') > Len(dl_log) \/ Len(pa_hist') > Len(pa_hist) \/ candles' # candles)
          => /\ am_log # <<>>
             /\ am_log[Len(am_log)] = AmEvent(Cur, am_year, "partitions")
             /\ YearPartitioned(partitions, am_year)
       /\ (pc = "am_year" /\ Len(am_log') > Len(am_log))
          => /\ cp_ret' = "nil" => YearPartitioned(partitions', am_year)
             /\ (YearPartitioned(partitions, am_year) /\ faults' = faults)
                   => partitions' = partitions /\ cp_ret' = "nil"
             /\ cp_ret' # "nil" =>
                   /\ pc' = "am_year"
                   /\ am_year' = am_year + 1
                   /\ dl_log' = <<>>]_vars
\* a finished run over two instruments: the partitions of the year were
\* ensured for each of them, the second time with nothing to create, and
\* candles were imported
C24_Witness ==
    /\ pc = "done"
    /\ Len(queue) = 2
    /\ \E i \in 1..Len(am_log) : \E j \in 1..Len(am_log) :
          /\ i < j
          /\ am_log[i] = AmEvent(queue[1], Min(Years), "partitions")
          /\ am_log[j] = AmEvent(queue[2], Min(Years), "partitions")
    /\ am_log[Len(am_log)].ev = "imported"
    /\ candles # {}

\* C25: every instrument for which the incremental driver issues a candle
\* fetch is, in the store, enabled and of normal trading status -- in the
\* interval loader and in the CLI loader, with or without --figi
C25_OnlyEnabledFetched ==
    [][Len(windows') > Len(windows) =>
        \E r \in instruments :
            /\ r.figi = Cur
            /\ r.enabled
            /\ r.trading_status = "SECURITY_TRADING_STATUS_NORMAL_TRADING"]_vars

\* C26: a row that reference-data sync adds to instruments is inserted with
\* enabled = false, whatever the record of the API reports, its
\* ApiTradeAvailableFlag included
C26_NewRowsDisabled ==
    [][\A r \in instruments' :
          (\A q \in instruments : q.figi # r.figi) => ~r.enabled]_vars

\* C27: the partition CreatePartition asks for is a function of the instant
\* alone: two calls for the same instant, whatever the location of their time
\* values (the local-zone time.Now of the initial partition included), ask
\* for the same name and the same range, and the month of the name is the
\* month of the range
C27_PartitionOfInstant ==
    /\ \A a, b \in zn_calls : a.instant = b.instant => a.part = b.part
    /\ \A a \in zn_calls : a.part.lo = a.part.name * MonthLen

\* C28: the progress marker of the pair, MAX(time) of its persisted candles,
\* bounds a contiguous prefix of what the archive offered: every candle of a
\* processed file with a time up to the marker is persisted, so a file whose
\* save failed is never followed by persisted later data
C28_MarkerBoundsPrefix ==
    \A k \in 1..Len(pa_hist) : \A i \in 1..Len(pa_hist[k].candles) :
        LET t == pa_hist[k].candles[i].time
        IN  (/\ pa_hist[k].status # "saving"
             /\ t <= MaxStoredTime(candles, ArchFigi, CandleInterval1Min))
            => \E r \in candles : SameKey(r, ArchFigi, t, CandleInterval1Min)

\* C29: SaveInstrument and SaveDividend return nil exactly when their
\* statement succeeded; so, when every statement of the run succeeded,
\* processInstruments has counted every record of normal trading status, and
\* ProcessInstrumentDividends has upserted every fetched dividend and
\* returned nil
C29_NilExactlyOnSuccess ==
    /\ si_ret # "wrapped_nil"
    /\ dv_sret # "wrapped_nil"
    /\ (pc \in {"dv_start", "dv_loop", "sync_done"} /\ faults = 0) =>
          pi_count = Cardinality({k \in 1..Len(pi_batch) :
                                    IsNormalTrading(pi_batch[k].TradingStatus)})
    /\ (pc = "sync_done" /\ faults = 0) =>
          /\ dv_ret = "nil"
          /\ \A k \in 1..Len(dv_batch) : dv_batch[k] \in dividends

\* C30: the row-reading loop of processArchive terminates for every file,
\* also when Read keeps returning the same error: every call of Read either
\* ends the loop or consumes a line of the file
C30_ReadLoopTerminates ==
    [][rd_reads' > rd_reads => (pc' # "rd_loop" \/ rd_pos' > rd_pos)]_vars
====
